---- MODULE Spec2Model ----
(***************************************************************************)
(* A model of the core of the haura storage engine (betree):               *)
(*   - the persistent replication cache (replication/mod.rs, lru.rs),      *)
(*   - the B-epsilon tree's insert / get / sync (tree/imp/mod.rs),         *)
(*   - the three-state object reference life cycle of the DML              *)
(*     (data_management/mod.rs).                                           *)
(* Each subsystem has its own specification (SpecCache, SpecTree,          *)
(* SpecDml); the variable sys names the subsystem a behaviour exercises,   *)
(* so that Spec is the sum of the subsystems and not their product.        *)
(***************************************************************************)
EXTENDS Integers, Sequences, FiniteSets, TLC

VARIABLES
  sys,      \* which subsystem this behaviour exercises
  \* ---- persistent replication cache (PCacheRoot) ----
  plru,     \* Plru root: [head, tail, capacity, count, size]
  pnode,    \* persistent memory of the LRU nodes: PalPtr -> PlruNode
  pmap,     \* PCacheRoot.map: hash -> PCacheMapEntry or NoEntry
  palloc,   \* the LRU node pointers currently allocated from the Pal
  cres,     \* outcome of the last cache operation
  \* ---- tree and DML: the nodes on the root-to-leaf path of the keys ----
  depth,    \* number of internal levels above the leaf (0: the root is a leaf)
  kind,     \* level -> "Internal" | "Disjoint" (NVM node with a separate child buffer)
  buf,      \* level -> key -> message buffered for the child edge (or NoMsg)
  leaf,     \* key -> leaf entry (or NoMsg)
  oref,     \* object -> ObjectRef: [st, ptr, old]
  nextPtr,  \* generation of the next extent the storage pool hands out
  frees,    \* extent -> [n, reason]: how often and why it was freed
  seq,      \* number of non-empty inserts made so far
  tres,     \* outcome of the last tree / DML operation
  \* ---- one NVM leaf node (NVMLeafNode) and the sibling a split produced ----
  nleaf,    \* the node: [st, keys, ent, loc, buf, meta]
  nsib,     \* the right sibling of the last split (an empty node otherwise)
  npacks,   \* how often the node was written back and read again
  lres,     \* outcome of the last leaf operation
  \* ---- the persistent B-tree of the replication layer (PBTree) ----
  proot,    \* the root node, with the nodes below it
  pwant,    \* key -> the value inserted last (0: never inserted)
  pres,     \* outcome of the last PBTree operation
  \* ---- automated migration (MigrationPolicy::migrate) ----
  minfo,    \* class -> StorageInfo of the tier: [some, free, total]
  mthr,     \* class -> migration_threshold of the configuration, in tenths
  mcalls,   \* the promote / demote calls of the last migrate, in order
  mres,     \* outcome of the last migrate
  \* ---- the main loop of the placement policy ----
  mimpl,    \* what runs main: "Anatomy" | "Implementor"
  mpc,      \* the statement main is at
  mterm,    \* the terminated flag
  mupd,     \* update calls begun since terminate()
  mmig,     \* migrate calls since terminate()
  mcyc      \* cycles of the loop completed

cacheVars == <<plru, pnode, pmap, palloc, cres>>
treeVars == <<depth, kind, buf, leaf, seq>>
dmlVars == <<oref, nextPtr, frees>>
leafVars == <<nleaf, nsib, npacks, lres>>
pbVars == <<proot, pwant, pres>>
migVars == <<minfo, mthr, mcalls, mres>>
polVars == <<mimpl, mpc, mterm, mupd, mmig, mcyc>>
vars == <<sys, plru, pnode, pmap, palloc, cres,
          depth, kind, buf, leaf, oref, nextPtr, frees, seq, tres,
          nleaf, nsib, npacks, lres, proot, pwant, pres,
          minfo, mthr, mcalls, mres, mimpl, mpc, mterm, mupd, mmig, mcyc>>

(***************************************************************************)
(* Bounds.                                                                 *)
(***************************************************************************)
MaxPtr == 3        \* LRU node slots the persistent allocator can hand out
MaxHash == 3       \* distinct key hashes
MaxLen == 3        \* longest value (bytes); values are not empty
MaxTag == 2        \* distinct value contents / baggages
CacheBytes == 2    \* capacity the cache is created with
MaxEvictions == MaxPtr  \* fuel of the eviction loop: one victim per linked node

MaxLevels == 3     \* internal levels of the deepest tree
MaxKey == 1        \* distinct non-empty keys
MaxInserts == 3    \* non-empty inserts per behaviour
MaxGen == 19       \* extents the storage pool hands out per behaviour
MaxWrites == 3     \* write-backs begun per behaviour of the DML alone

NULL == 0
Ptrs == 1..MaxPtr
Hashes == 1..MaxHash
Lens == 1..MaxLen
Tags == 1..MaxTag

Min(S) == CHOOSE x \in S : \A y \in S : x <= y

(***************************************************************************)
(* NVMLeafNode (tree/imp/nvmleaf.rs).  Keys and values are byte strings.   *)
(* A node is [st, keys, ent, loc, buf, meta]: st is the NVMLeafNodeState   *)
(* variant, keys the keys of its BTreeMap, ent[k] the entry of k (the      *)
(* OnceLock cell while PartiallyLoaded), loc[k] the Location of k in buf,  *)
(* buf the slice of the data region, meta the NVMLeafNodeMetaData.         *)
(***************************************************************************)
LongKey == 12      \* length of the longest leaf key (bytes)
MaxVal == 1        \* longest leaf value (bytes); the empty value is a value
MaxPacks == 1      \* times the node is written back and read again per behaviour
MaxPref == 1       \* storage classes a KeyInfo can name: 0..MaxPref

NVMLEAF_METADATA_OFFSET == 8
NVMLEAF_PER_KEY_META_LEN == 12
MetaStaticSize == 6
KeyInfoSize == 1
PrefNone == 254
PrefUnknown == 255

Fill(b, n) == [i \in 1..n |-> b]
\* the keys of the model in the order of the BTreeMap (lexicographic)
KeyOrder == <<Fill(1, 1), Fill(1, LongKey), Fill(2, 1)>>
LeafKeys == {KeyOrder[i] : i \in 1..Len(KeyOrder)}
LeafVals == {[i \in 1..n |-> 4 + i] : n \in 0..MaxVal}
LeafPrefs == 0..MaxPref
KeyRank(k) == CHOOSE i \in 1..Len(KeyOrder) : KeyOrder[i] = k
SortedKeys(K) == SelectSeq(KeyOrder, LAMBDA k : k \in K)

NoCell == [some |-> FALSE, info |-> 0, val |-> <<>>]
Cell(info, val) == [some |-> TRUE, info |-> info, val |-> val]
NoLoc == [off |-> 0, len |-> 0]
NewLeaf ==
  [st |-> "Deserialized", keys |-> {}, ent |-> [k \in LeafKeys |-> NoCell],
   loc |-> [k \in LeafKeys |-> NoLoc], buf |-> <<>>,
   meta |-> [pref |-> PrefNone, sys |-> PrefNone, entries_size |-> 0]]

U32(n) == <<n % 256, (n \div 256) % 256, (n \div 65536) % 256, (n \div 16777216) % 256>>
FromU32(b) == b[1] + 256 * b[2] + 65536 * b[3] + 16777216 * b[4]
\* the Rust slice b[from..to]; InSlice says that taking it does not panic
InSlice(b, from, to) == from <= to /\ to <= Len(b)
Slice(b, from, to) == SubSeq(b, from + 1, to)

\* AtomicStoragePreference: the faster (smaller) class wins, an unknown
\* preference is written as NONE
PrefUpgrade(p, q) == IF q < p THEN q ELSE p
PackedPref(p) == IF p = PrefUnknown THEN PrefNone ELSE p

RECURSIVE SumEntries(_, _)
SumEntries(n, K) ==
  IF K = {} THEN 0
  ELSE LET k == CHOOSE x \in K : TRUE
       IN  Len(n.ent[k].val) + KeyInfoSize + NVMLEAF_PER_KEY_META_LEN + Len(k)
             + SumEntries(n, K \ {k})
\* impl Size for NVMLeafNode
Size(n) == NVMLEAF_METADATA_OFFSET + MetaStaticSize + n.meta.entries_size
ActualSize(n) == NVMLEAF_METADATA_OFFSET + MetaStaticSize + SumEntries(n, n.keys)

RECURSIVE PackIndex(_, _, _)
PackIndex(n, ks, off) ==
  IF ks = <<>> THEN <<>>
  ELSE LET k == Head(ks)
           val == n.ent[k].val
       IN  U32(Len(k)) \o U32(off) \o U32(Len(val)) \o k
             \o PackIndex(n, Tail(ks), off + KeyInfoSize + Len(val))
RECURSIVE PackData(_, _)
PackData(n, ks) ==
  IF ks = <<>> THEN <<>>
  ELSE <<n.ent[Head(ks)].info>> \o n.ent[Head(ks)].val \o PackData(n, Tail(ks))
MetaPack(m) == <<PackedPref(m.pref), m.sys>> \o U32(m.entries_size)
MetaUnpack(b) == [pref |-> b[1], sys |-> b[2], entries_size |-> FromU32(Slice(b, 2, 6))]
\* NVMLeafNode::pack of a Deserialized node: the bytes written
Pack(n) ==
  LET ks == SortedKeys(n.keys)
      meta_len == MetaStaticSize + Len(ks) * NVMLEAF_PER_KEY_META_LEN
      data == PackData(n, ks)
  IN  U32(meta_len) \o U32(Len(data)) \o MetaPack(n.meta) \o PackIndex(n, ks, 0) \o data

\* the key loop of unpack: [keys, loc, ok], ok = FALSE when a slice panics
RECURSIVE ReadKeys(_, _, _, _)
ReadKeys(data, off, end, acc) ==
  IF off >= end THEN acc
  ELSE IF ~InSlice(data, off, off + 12) THEN [acc EXCEPT !.ok = FALSE]
  ELSE LET len == FromU32(Slice(data, off, off + 4))
           location == [off |-> FromU32(Slice(data, off + 4, off + 8)),
                        len |-> FromU32(Slice(data, off + 8, off + 12))]
       IN  IF ~InSlice(data, off + 12, off + 12 + len) THEN [acc EXCEPT !.ok = FALSE]
           ELSE LET key == Slice(data, off + 12, off + 12 + len)
                IN  IF key \notin LeafKeys THEN [acc EXCEPT !.ok = FALSE]
                    ELSE ReadKeys(data, off + 12 + len, end,
                                  [acc EXCEPT !.keys = @ \cup {key}, !.loc[key] = location])
\* NVMLeafNode::unpack (build without cfg(test)): the node read from the
\* bytes data of an object; raw_data is the slice of the same object
Unpack(data) ==
  LET meta_data_len == FromU32(Slice(data, 0, 4))
      data_len == FromU32(Slice(data, 4, 8))
      meta_data_end == NVMLEAF_METADATA_OFFSET + meta_data_len
      data_start == meta_data_end
      rd == ReadKeys(data, NVMLEAF_METADATA_OFFSET + MetaStaticSize, meta_data_end,
                     [keys |-> {}, loc |-> [k \in LeafKeys |-> NoLoc], ok |-> TRUE])
  IN  [st |-> IF rd.ok /\ InSlice(data, data_start, data_start + data_len)
                THEN "PartiallyLoaded" ELSE "Panic",
       keys |-> rd.keys, ent |-> [k \in LeafKeys |-> NoCell], loc |-> rd.loc,
       buf |-> IF InSlice(data, data_start, data_start + data_len)
                 THEN Slice(data, data_start, data_start + data_len) ELSE <<>>,
       meta |-> MetaUnpack(Slice(data, NVMLEAF_METADATA_OFFSET,
                                 NVMLEAF_METADATA_OFFSET + MetaStaticSize))]

\* unpack_entry(&buf[loc.range()]); CanUnpackEntry says that it does not panic
CanUnpackEntry(n, k) ==
  InSlice(n.buf, n.loc[k].off, n.loc[k].off + n.loc[k].len) /\ n.loc[k].len >= 1
UnpackEntry(n, k) ==
  LET e == Slice(n.buf, n.loc[k].off, n.loc[k].off + n.loc[k].len)
  IN  Cell(e[1], Tail(e))
\* NVMLeafNodeState::get: the node afterwards (the cell of key initialised)
\* and the entry returned; NoCell stands for None
StateGet(n, k) ==
  IF k \notin n.keys THEN [node |-> n, res |-> NoCell, ok |-> TRUE]
  ELSE IF n.st = "Deserialized" \/ n.ent[k].some
         THEN [node |-> n, res |-> n.ent[k], ok |-> TRUE]
  ELSE IF ~CanUnpackEntry(n, k) THEN [node |-> n, res |-> NoCell, ok |-> FALSE]
  ELSE LET e == UnpackEntry(n, k)
       IN  [node |-> [n EXCEPT !.ent[k] = e], res |-> e, ok |-> TRUE]
\* upgrade without the check for unfetched cells
UpgradeUnchecked(n) ==
  IF n.st = "Deserialized" THEN [node |-> n, res |-> "AlreadyDeserialized"]
  ELSE [node |-> [n EXCEPT !.st = "Deserialized", !.buf = <<>>,
                           !.loc = [k \in LeafKeys |-> NoLoc]],
        res |-> "Ok"]
\* NVMLeafNodeState::upgrade
Upgrade(n) ==
  IF n.st = "Deserialized" THEN [node |-> n, res |-> "AlreadyDeserialized"]
  ELSE IF \E k \in n.keys : ~n.ent[k].some
         THEN [node |-> n, res |-> "AttemptedInvalidTransition"]
  ELSE [node |-> [n EXCEPT !.st = "Deserialized", !.buf = <<>>,
                           !.loc = [k \in LeafKeys |-> NoLoc]],
        res |-> "Ok"]
\* NVMLeafNodeState::fetch: get of every key, in key order
RECURSIVE Fetch(_, _)
Fetch(n, ks) ==
  IF ks = <<>> THEN [node |-> n, ok |-> TRUE]
  ELSE LET g == StateGet(n, Head(ks))
       IN  IF ~g.ok THEN [node |-> g.node, ok |-> FALSE] ELSE Fetch(g.node, Tail(ks))
\* NVMLeafNodeState::force_upgrade
ForceUpgrade(n) ==
  IF n.st = "Deserialized" THEN [node |-> n, ok |-> TRUE]
  ELSE LET f == Fetch(n, SortedKeys(n.keys))
       IN  IF ~f.ok THEN f
           ELSE LET u == Upgrade(f.node)
                IN  [node |-> u.node, ok |-> u.res # "AttemptedInvalidTransition"]

\* NVMLeafNodeState::iter: the pairs (key, entry) in key order; todo!() for a
\* PartiallyLoaded node
StateIter(n) ==
  IF n.st = "Deserialized"
    THEN [items |-> [i \in 1..Cardinality(n.keys) |->
                       [key |-> SortedKeys(n.keys)[i], cell |-> n.ent[SortedKeys(n.keys)[i]]]],
          ok |-> TRUE]
    ELSE [items |-> <<>>, ok |-> FALSE]
\* NVMLeafNode::range: self.state.fetch(); self.state.iter()
Range(n) ==
  LET Iterated(f, i) == [node |-> f.node, items |-> i.items, ok |-> i.ok]
      Fetched(f) ==
        IF ~f.ok THEN [node |-> f.node, items |-> <<>>, ok |-> FALSE]
        ELSE Iterated(f, StateIter(f.node))
  IN  Fetched(Fetch(n, SortedKeys(n.keys)))

SmallMin == 20     \* the smaller min_size a split is called with
LargeMin == 30     \* the larger min_size a split is called with
MinSizes == {SmallMin, LargeMin}
MaxSizeFor(min_size) == 2 * min_size

\* a message as MessageAction::apply_to_leaf sees it: it sets the value or deletes it
LeafMsgs == {[del |-> FALSE, val |-> v] : v \in LeafVals} \cup {[del |-> TRUE, val |-> <<>>]}

\* insert that forgets the KeyInfo byte of a removed entry
InsertForgetKeyInfo(n0, key, keyinfo, msg) ==
  LET Upgraded(f) ==
        LET n == f.node
            size_before == n.meta.entries_size
            key_size == Len(key)
            old == n.ent[key]
        IN  IF ~f.ok THEN [node |-> n, delta |-> 0, ok |-> FALSE]
            ELSE LET n1 ==
                       IF ~msg.del
                         THEN LET up == PrefUpgrade(n.meta.pref, keyinfo)
                              IN  [n EXCEPT
                                     !.keys = @ \cup {key},
                                     !.ent[key] = Cell(keyinfo, msg.val),
                                     !.meta.entries_size =
                                        IF key \in n.keys
                                          THEN @ + Len(msg.val) - Len(old.val)
                                          ELSE @ + Len(msg.val) + key_size
                                                 + NVMLEAF_PER_KEY_META_LEN + KeyInfoSize,
                                     !.meta.pref =
                                        IF key \in n.keys /\ old.info < keyinfo
                                          THEN PrefUnknown ELSE up]
                       ELSE IF key \in n.keys
                         THEN [n EXCEPT
                                 !.keys = @ \ {key},
                                 !.ent[key] = NoCell,
                                 !.meta.entries_size =
                                    @ - (key_size + NVMLEAF_PER_KEY_META_LEN)
                                      - Len(old.val),
                                 !.meta.pref = IF @ = old.info THEN PrefUnknown ELSE @]
                       ELSE n
                 IN  [node |-> n1, delta |-> n1.meta.entries_size - size_before, ok |-> TRUE]
  IN  Upgraded(ForceUpgrade(n0))

\* insert that does not upgrade the node first
InsertNoUpgrade(n0, key, keyinfo, msg) ==
  LET f == [node |-> n0, ok |-> TRUE]
      n == f.node
      size_before == n.meta.entries_size
      key_size == Len(key)
      old == n.ent[key]
  IN  IF ~f.ok THEN [node |-> n, delta |-> 0, ok |-> FALSE]
      ELSE LET n1 ==
                 IF ~msg.del
                   THEN LET up == PrefUpgrade(n.meta.pref, keyinfo)
                        IN  [n EXCEPT
                               !.keys = @ \cup {key},
                               !.ent[key] = Cell(keyinfo, msg.val),
                               !.meta.entries_size =
                                  IF key \in n.keys
                                    THEN @ + Len(msg.val) - Len(old.val)
                                    ELSE @ + Len(msg.val) + key_size
                                           + NVMLEAF_PER_KEY_META_LEN + KeyInfoSize,
                               !.meta.pref =
                                  IF key \in n.keys /\ old.info < keyinfo
                                    THEN PrefUnknown ELSE up]
                 ELSE IF key \in n.keys
                   THEN [n EXCEPT
                           !.keys = @ \ {key},
                           !.ent[key] = NoCell,
                           !.meta.entries_size =
                              @ - (key_size + NVMLEAF_PER_KEY_META_LEN)
                                - (Len(old.val) + KeyInfoSize),
                           !.meta.pref = IF @ = old.info THEN PrefUnknown ELSE @]
                 ELSE n
           IN  [node |-> n1, delta |-> n1.meta.entries_size - size_before, ok |-> TRUE]

\* NVMLeafNode::insert: [node, delta, ok]
Insert(n0, key, keyinfo, msg) ==
  LET Upgraded(f) ==
        LET n == f.node
            size_before == n.meta.entries_size
            key_size == Len(key)
            old == n.ent[key]
        IN  IF ~f.ok THEN [node |-> n, delta |-> 0, ok |-> FALSE]
            ELSE LET n1 ==
                       IF ~msg.del
                         THEN LET up == PrefUpgrade(n.meta.pref, keyinfo)
                              IN  [n EXCEPT
                                     !.keys = @ \cup {key},
                                     !.ent[key] = Cell(keyinfo, msg.val),
                                     !.meta.entries_size =
                                        IF key \in n.keys
                                          THEN @ + Len(msg.val) - Len(old.val)
                                          ELSE @ + Len(msg.val) + key_size
                                                 + NVMLEAF_PER_KEY_META_LEN + KeyInfoSize,
                                     !.meta.pref =
                                        IF key \in n.keys /\ old.info < keyinfo
                                          THEN PrefUnknown ELSE up]
                       ELSE IF key \in n.keys
                         THEN [n EXCEPT
                                 !.keys = @ \ {key},
                                 !.ent[key] = NoCell,
                                 !.meta.entries_size =
                                    @ - (key_size + NVMLEAF_PER_KEY_META_LEN)
                                      - (Len(old.val) + KeyInfoSize),
                                 !.meta.pref = IF @ = old.info THEN PrefUnknown ELSE @]
                       ELSE n
                 IN  [node |-> n1, delta |-> n1.meta.entries_size - size_before, ok |-> TRUE]
  IN  Upgraded(ForceUpgrade(n0))

\* the loop of do_split_off over the entries in reverse key order:
\* [found, key, size, pref]
RECURSIVE SplitScan(_, _, _, _, _)
SplitScan(n, ks, sibling_size, sibling_pref, min_size) ==
  IF ks = <<>> THEN [found |-> FALSE, key |-> <<>>, size |-> sibling_size, pref |-> sibling_pref]
  ELSE LET k == ks[Len(ks)]
           size == sibling_size + Len(k) + NVMLEAF_PER_KEY_META_LEN + Len(n.ent[k].val)
                     + KeyInfoSize
           pref == PrefUpgrade(sibling_pref, n.ent[k].info)
       IN  IF size >= min_size
             THEN [found |-> TRUE, key |-> k, size |-> size, pref |-> pref]
             ELSE SplitScan(n, SubSeq(ks, 1, Len(ks) - 1), size, pref, min_size)
\* do_split_off that leaves the split key on the left
DoSplitOffExclusive(n0, right_sibling, min_size, max_size, debug) ==
  LET Upgraded(f) ==
        LET n == f.node
            failed == [left |-> n, right |-> right_sibling, pivot |-> <<>>, delta |-> 0, ok |-> FALSE]
        IN  IF ~f.ok THEN failed
            ELSE IF debug /\ (Size(n) <= max_size \/ right_sibling.meta.entries_size # 0) THEN failed
            ELSE LET s == SplitScan(n, SortedKeys(n.keys), 0, PrefNone, min_size)
                 IN  IF ~s.found THEN failed
                     ELSE LET moved == {k \in n.keys : KeyRank(k) > KeyRank(s.key)}
                              right == [right_sibling EXCEPT
                                          !.keys = moved,
                                          !.ent = [k \in LeafKeys |->
                                                     IF k \in moved THEN n.ent[k] ELSE NoCell],
                                          !.meta.entries_size = s.size,
                                          !.meta.pref = s.pref]
                              left == [n EXCEPT
                                         !.keys = @ \ moved,
                                         !.ent = [k \in LeafKeys |->
                                                    IF k \in moved THEN NoCell ELSE n.ent[k]],
                                         !.meta.entries_size = @ - s.size,
                                         !.meta.pref = PrefUnknown]
                              lks == SortedKeys(left.keys)
                          IN  IF lks = <<>>
                                THEN [left |-> left, right |-> right, pivot |-> <<>>,
                                      delta |-> 0 - s.size, ok |-> FALSE]
                                ELSE [left |-> left, right |-> right, pivot |-> lks[Len(lks)],
                                      delta |-> 0 - s.size, ok |-> TRUE]
  IN  Upgraded(ForceUpgrade(n0))
\* NVMLeafNode::do_split_off: [left, right, pivot, delta, ok]; debug says
\* whether the build checks debug_assert
DoSplitOff(n0, right_sibling, min_size, max_size, debug) ==
  LET Upgraded(f) ==
        LET n == f.node
            failed == [left |-> n, right |-> right_sibling, pivot |-> <<>>, delta |-> 0, ok |-> FALSE]
        IN  IF ~f.ok THEN failed
            ELSE IF debug /\ (Size(n) <= max_size \/ right_sibling.meta.entries_size # 0) THEN failed
            ELSE LET s == SplitScan(n, SortedKeys(n.keys), 0, PrefNone, min_size)
                 IN  IF ~s.found THEN failed
                     ELSE LET moved == {k \in n.keys : KeyRank(k) >= KeyRank(s.key)}
                              right == [right_sibling EXCEPT
                                          !.keys = moved,
                                          !.ent = [k \in LeafKeys |->
                                                     IF k \in moved THEN n.ent[k] ELSE NoCell],
                                          !.meta.entries_size = s.size,
                                          !.meta.pref = s.pref]
                              left == [n EXCEPT
                                         !.keys = @ \ moved,
                                         !.ent = [k \in LeafKeys |->
                                                    IF k \in moved THEN NoCell ELSE n.ent[k]],
                                         !.meta.entries_size = @ - s.size,
                                         !.meta.pref = PrefUnknown]
                              lks == SortedKeys(left.keys)
                          IN  IF lks = <<>>
                                THEN [left |-> left, right |-> right, pivot |-> <<>>,
                                      delta |-> 0 - s.size, ok |-> FALSE]
                                ELSE [left |-> left, right |-> right, pivot |-> lks[Len(lks)],
                                      delta |-> 0 - s.size, ok |-> TRUE]
  IN  Upgraded(ForceUpgrade(n0))
\* NVMLeafNode::split
Split(n, min_size, max_size, debug) == DoSplitOff(n, NewLeaf, min_size, max_size, debug)

\* merge that does not take over the preference of the right sibling
MergeNoPrefUpgrade(l0, r0) ==
  LET Upgraded(fl, fr) ==
        LET l == fl.node
            r == fr.node
        IN  IF ~fl.ok \/ ~fr.ok THEN [left |-> l, right |-> r, delta |-> 0, ok |-> FALSE]
            ELSE [left |-> [l EXCEPT
                              !.keys = @ \cup r.keys,
                              !.ent = [k \in LeafKeys |-> IF k \in r.keys THEN r.ent[k] ELSE l.ent[k]],
                              !.meta.entries_size = @ + r.meta.entries_size],
                  right |-> [r EXCEPT
                               !.keys = {},
                               !.ent = [k \in LeafKeys |-> NoCell],
                               !.meta.entries_size = 0,
                               !.meta.pref = PrefNone],
                  delta |-> r.meta.entries_size, ok |-> TRUE]
  IN  Upgraded(ForceUpgrade(l0), ForceUpgrade(r0))

\* NVMLeafNode::merge: [left, right, delta, ok]
Merge(l0, r0) ==
  LET Upgraded(fl, fr) ==
        LET l == fl.node
            r == fr.node
        IN  IF ~fl.ok \/ ~fr.ok THEN [left |-> l, right |-> r, delta |-> 0, ok |-> FALSE]
            ELSE [left |-> [l EXCEPT
                              !.keys = @ \cup r.keys,
                              !.ent = [k \in LeafKeys |-> IF k \in r.keys THEN r.ent[k] ELSE l.ent[k]],
                              !.meta.entries_size = @ + r.meta.entries_size,
                              !.meta.pref = PrefUpgrade(@, r.meta.pref)],
                  right |-> [r EXCEPT
                               !.keys = {},
                               !.ent = [k \in LeafKeys |-> NoCell],
                               !.meta.entries_size = 0,
                               !.meta.pref = PrefNone],
                  delta |-> r.meta.entries_size, ok |-> TRUE]
  IN  Upgraded(ForceUpgrade(l0), ForceUpgrade(r0))

\* HasStoragePreference::recalculate of a Deserialized node: the fastest
\* class any entry names
Recalc(n) == Min({n.ent[k].info : k \in n.keys} \cup {PrefNone})
Recalculate(n) == [n EXCEPT !.meta.pref = Recalc(n)]

\* NVMLeafNode::rebalance: [left, right, delta, ok]
Rebalance(l0, r0, min_size, max_size, debug) ==
  LET Resplit(m, d) ==
        [left |-> d.left, right |-> d.right, delta |-> m.delta + d.delta, ok |-> d.ok]
      Merged(m) ==
        IF ~m.ok THEN m
        ELSE IF Size(m.left) <= max_size THEN m
        ELSE Resplit(m, DoSplitOff(m.left, m.right, min_size, max_size, debug))
  IN  Merged(Merge(l0, r0))

\* tests::split_merge_idempotent: split, recalculate, merge
SplitMerge(n, min_size, max_size, debug) ==
  LET Merged(s) ==
        IF ~s.ok THEN [left |-> s.left, right |-> s.right, delta |-> 0, ok |-> FALSE]
        ELSE Merge(Recalculate(s.left), s.right)
  IN  Merged(Split(n, min_size, max_size, debug))

\* a panic ends the process: the node in memory is gone
Panicked(n) == [NewLeaf EXCEPT !.st = "Panic"]
LeafRes(op, res, key, delta, got, min_size) ==
  [op |-> op, res |-> res, key |-> key, delta |-> delta, got |-> got, min |-> min_size]
IdleLeafVars ==
  /\ nleaf = NewLeaf
  /\ nsib = NewLeaf
  /\ npacks = 0
  /\ lres = LeafRes("new", "Ok", <<>>, 0, NoCell, 0)

\* tree: a message for a key of this leaf (all keys left of the sibling) arrives
NLeafInsert ==
  /\ sys = "leaf" /\ nleaf.st # "Panic"
  /\ \E key \in LeafKeys, keyinfo \in LeafPrefs, msg \in LeafMsgs :
       /\ \A r \in nsib.keys : KeyRank(key) < KeyRank(r)
       /\ \E i \in {Insert(nleaf, key, keyinfo, msg)} :
            /\ nleaf' = IF i.ok THEN i.node ELSE Panicked(i.node)
            /\ lres' = LeafRes("insert", IF i.ok THEN "Ok" ELSE "Panic", <<>>, i.delta, NoCell, 0)
  /\ UNCHANGED <<sys, pbVars, migVars, polVars, nsib, npacks, cacheVars, treeVars, dmlVars, tres>>

\* the node is written back and read again from the bytes
NLeafPackUnpack ==
  /\ sys = "leaf" /\ nleaf.st = "Deserialized" /\ npacks < MaxPacks
  /\ npacks' = npacks + 1
  /\ \E u \in {Unpack(Pack(nleaf))} :
       /\ nleaf' = u
       /\ lres' = LeafRes("unpack", IF u.st = "Panic" THEN "Panic" ELSE "Ok", <<>>, 0, NoCell, 0)
  /\ UNCHANGED <<sys, pbVars, migVars, polVars, nsib, cacheVars, treeVars, dmlVars, tres>>

NLeafGet ==
  /\ sys = "leaf" /\ nleaf.st # "Panic"
  /\ \E key \in LeafKeys :
     \E g \in {StateGet(nleaf, key)} :
       /\ nleaf' = IF g.ok THEN g.node ELSE Panicked(g.node)
       /\ lres' = LeafRes("get", IF g.ok THEN "Ok" ELSE "Panic", key, 0, g.res, 0)
  /\ UNCHANGED <<sys, pbVars, migVars, polVars, nsib, npacks, cacheVars, treeVars, dmlVars, tres>>

NLeafUpgrade ==
  /\ sys = "leaf" /\ nleaf.st # "Panic"
  /\ \E u \in {Upgrade(nleaf)} :
       /\ nleaf' = u.node
       /\ lres' = LeafRes("upgrade", u.res, <<>>, 0, NoCell, 0)
  /\ UNCHANGED <<sys, pbVars, migVars, polVars, nsib, npacks, cacheVars, treeVars, dmlVars, tres>>

NLeafForceUpgrade ==
  /\ sys = "leaf" /\ nleaf.st # "Panic"
  /\ \E f \in {ForceUpgrade(nleaf)} :
       /\ nleaf' = IF f.ok THEN f.node ELSE Panicked(f.node)
       /\ lres' = LeafRes("force_upgrade", IF f.ok THEN "Ok" ELSE "Panic", <<>>, 0, NoCell, 0)
  /\ UNCHANGED <<sys, pbVars, migVars, polVars, nsib, npacks, cacheVars, treeVars, dmlVars, tres>>

NLeafSplit ==
  /\ sys = "leaf" /\ nleaf.st # "Panic" /\ nsib.keys = {}
  /\ \E min_size \in MinSizes, debug \in BOOLEAN :
     \E s \in {Split(nleaf, min_size, MaxSizeFor(min_size), debug)} :
       /\ nleaf' = IF s.ok THEN s.left ELSE Panicked(s.left)
       /\ nsib' = IF s.ok THEN s.right ELSE NewLeaf
       /\ lres' = LeafRes("split", IF s.ok THEN "Ok" ELSE "Panic", s.pivot, s.delta,
                          NoCell, min_size)
  /\ UNCHANGED <<sys, pbVars, migVars, polVars, npacks, cacheVars, treeVars, dmlVars, tres>>

NLeafMerge ==
  /\ sys = "leaf" /\ nleaf.st # "Panic" /\ nsib.keys # {}
  /\ \E m \in {Merge(nleaf, nsib)} :
       /\ nleaf' = IF m.ok THEN m.left ELSE Panicked(m.left)
       /\ nsib' = m.right
       /\ lres' = LeafRes("merge", IF m.ok THEN "Ok" ELSE "Panic", <<>>, m.delta, NoCell, 0)
  /\ UNCHANGED <<sys, pbVars, migVars, polVars, npacks, cacheVars, treeVars, dmlVars, tres>>

NLeafRebalance ==
  /\ sys = "leaf" /\ nleaf.st # "Panic" /\ nsib.keys # {}
  /\ \E min_size \in MinSizes, debug \in BOOLEAN :
     \E m \in {Rebalance(nleaf, nsib, min_size, MaxSizeFor(min_size), debug)} :
       /\ nleaf' = IF m.ok THEN m.left ELSE Panicked(m.left)
       /\ nsib' = IF m.ok THEN m.right ELSE NewLeaf
       /\ lres' = LeafRes("rebalance", IF m.ok THEN "Ok" ELSE "Panic", <<>>, m.delta, NoCell,
                          min_size)
  /\ UNCHANGED <<sys, pbVars, migVars, polVars, npacks, cacheVars, treeVars, dmlVars, tres>>

\* the node is split and the sibling merged back at once
NLeafSplitMerge ==
  /\ sys = "leaf" /\ nleaf.st # "Panic" /\ nsib.keys = {}
  /\ \E min_size \in MinSizes, debug \in BOOLEAN :
     \E m \in {SplitMerge(nleaf, min_size, MaxSizeFor(min_size), debug)} :
       /\ nleaf' = IF m.ok THEN m.left ELSE Panicked(m.left)
       /\ nsib' = IF m.ok THEN m.right ELSE NewLeaf
       /\ lres' = LeafRes("split_merge", IF m.ok THEN "Ok" ELSE "Panic", <<>>, m.delta, NoCell,
                          min_size)
  /\ UNCHANGED <<sys, pbVars, migVars, polVars, npacks, cacheVars, treeVars, dmlVars, tres>>

\* range() is called and the iterator is drained; lres.got holds the pairs
NLeafRange ==
  /\ sys = "leaf" /\ nleaf.st # "Panic"
  /\ \E r \in {Range(nleaf)} :
       /\ nleaf' = IF r.ok THEN r.node ELSE Panicked(r.node)
       /\ lres' = LeafRes("range", IF r.ok THEN "Ok" ELSE "Panic", <<>>, 0, r.items, 0)
  /\ UNCHANGED <<sys, pbVars, migVars, polVars, nsib, npacks, cacheVars, treeVars, dmlVars, tres>>

(***************************************************************************)
(* PBTree (replication/tree.rs) over ShiftArray (replication/              *)
(* shift_array.rs).  A ShiftArray is [count, arr, ok]: arr has the fixed   *)
(* length of the Rust array and holds the empty slot where Rust holds      *)
(* None; ok turns FALSE when an assert or unwrap of the code fails.  A     *)
(* node is [pivots, children, ok]; a child link holds the node itself (a   *)
(* node has one owner).  Indices are those of the code (from 0).           *)
(***************************************************************************)
B == 4             \* order of the tree (const B; 16 in the source)
MaxPKey == 9       \* distinct keys of the PBTree: 1..MaxPKey
MaxReinserts == 1  \* keys inserted a second time per behaviour

NUM_KEYS == B - 1
PKeys == 1..MaxPKey
NoPivot == 0
NoLink == [tag |-> "None"]

SaNew(A, none) == [count |-> 0, arr |-> [i \in 1..A |-> none], ok |-> TRUE]

\* ShiftArray::find: the index of the first element >= v, or count.
SaFind(s, v) ==
  LET hits == {i \in 0..(s.count - 1) : s.arr[i + 1] >= v}
  IN  IF hits = {} THEN s.count ELSE Min(hits)

\* ShiftArray::insert: the slots from idx on move one to the right, the last
\* one falls off.
SaInsert(s, idx, val) ==
  IF s.count >= Len(s.arr)
    THEN [s EXCEPT !.ok = FALSE]
    ELSE [s EXCEPT !.count = s.count + 1,
                   !.arr = [cur \in 1..Len(s.arr) |->
                              IF cur < idx + 1 THEN s.arr[cur]
                              ELSE IF cur = idx + 1 THEN val ELSE s.arr[cur - 1]]]

\* ShiftArray::push_back: the slot at count is overwritten.
SaPushBack(s, val) ==
  IF s.count >= Len(s.arr)
    THEN [s EXCEPT !.ok = FALSE]
    ELSE [s EXCEPT !.count = s.count + 1, !.arr[s.count + 1] = val]

\* ShiftArray::pop_back: remove(count - 1), the slots behind move left.
SaPopBack(s, none) ==
  IF s.count = 0
    THEN [s EXCEPT !.ok = FALSE]
    ELSE [s EXCEPT !.count = s.count - 1,
                   !.arr = [cur \in 1..Len(s.arr) |->
                              IF cur < s.count THEN s.arr[cur]
                              ELSE IF cur < Len(s.arr) THEN s.arr[cur + 1] ELSE none]]

\* ShiftArray::split_after: [left, right]; the slots idx+1 .. count-1 are
\* taken (unwrap) and pushed to a new array.
SaSplitAfter(s, idx, none) ==
  LET moved == [j \in 1..(s.count - idx - 1) |-> s.arr[idx + 1 + j]]
      fine == idx < s.count /\ \A j \in 1..Len(moved) : moved[j] # none
  IN  [left |-> [count |-> idx + 1,
                 arr |-> [cur \in 1..Len(s.arr) |->
                            IF cur > idx + 1 /\ cur <= s.count THEN none ELSE s.arr[cur]],
                 ok |-> s.ok /\ fine],
       right |-> [count |-> Len(moved),
                  arr |-> [cur \in 1..Len(s.arr) |->
                             IF cur <= Len(moved) THEN moved[cur] ELSE none],
                  ok |-> TRUE]]

\* ShiftArray::last (arr[count.saturating_sub(1)]) and ::first (arr[0]).
SaLast(s) == s.arr[(IF s.count = 0 THEN 0 ELSE s.count - 1) + 1]

\* Node::new
NodeNew == [pivots |-> SaNew(NUM_KEYS, NoPivot), children |-> SaNew(B, NoLink), ok |-> TRUE]

\* Node::walk: [w, idx] with w one of Miss, Found, Child (Panic: unwrap of an
\* empty child slot under an equal pivot).
Walk(n, key) ==
  LET stop == {i \in 0..(B - 2) : n.pivots.arr[i + 1] = NoPivot \/ n.pivots.arr[i + 1] >= key}
      idx == IF stop = {} THEN B - 1 ELSE Min(stop)
      c == n.children.arr[idx + 1]
  IN  IF idx < B - 1 /\ n.pivots.arr[idx + 1] = key
        THEN [w |-> CASE c.tag = "Entry" -> "Found" [] c.tag = "Child" -> "Child"
                      [] OTHER -> "Panic", idx |-> idx]
        ELSE [w |-> IF c.tag = "Child" THEN "Child" ELSE "Miss", idx |-> idx]

\* Node::split: [left, right, key]; the asserts of the code clear left.ok.
NodeSplit(n) ==
  LET idx == (NUM_KEYS \div 2) + (NUM_KEYS % 2) - 1
      Halves(p, c, high, low) ==
        [left |-> [pivots |-> p.left, children |-> c.left,
                   ok |-> /\ n.ok
                          /\ n.pivots.count = NUM_KEYS
                          /\ n.children.count >= NUM_KEYS
                          /\ high # NoPivot /\ low # NoPivot /\ high < low],
         right |-> [pivots |-> p.right, children |-> c.right, ok |-> TRUE],
         key |-> high]
      Pivots(p, c) == Halves(p, c, SaLast(p.left), p.right.arr[1])
  IN  Pivots(SaSplitAfter(n.pivots, idx, NoPivot), SaSplitAfter(n.children, idx, NoLink))

\* Node::splice
Splice(n, key, val) ==
  LET idx == SaFind(n.pivots, key)
  IN  [n EXCEPT !.pivots = SaInsert(n.pivots, idx, key),
                !.children = SaInsert(n.children, idx, [tag |-> "Entry", k |-> key, v |-> val])]

\* Node::escalate: [node, split, key, right]; split says that Some((upper,
\* new_right)) is returned.
RECURSIVE Escalate(_, _, _)
Escalate(n, key, right) ==
  IF n.children.count < B
    THEN LET idx == SaFind(n.pivots, key)
             link == [tag |-> "Child", n |-> right]
         IN  [split |-> FALSE, key |-> 0, right |-> NodeNew,
              node |->
                IF n.pivots.count = NUM_KEYS
                  THEN IF idx = n.pivots.count
                         THEN [n EXCEPT !.children = SaPushBack(n.children, link)]
                         ELSE [n EXCEPT
                                 !.pivots = SaInsert(SaPopBack(n.pivots, NoPivot), idx, key),
                                 !.children = SaInsert(n.children, idx + 1, link)]
                  ELSE [n EXCEPT !.pivots = SaInsert(n.pivots, idx, key),
                                 !.children = SaInsert(n.children, idx + 1, link)]]
    ELSE LET Asserted(r) == [r.node EXCEPT !.ok = r.node.ok /\ ~r.split]
             Place(s, self) ==
               IF ~s.left.ok
                 THEN [split |-> TRUE, key |-> s.key, right |-> s.right, node |-> s.left]
                 ELSE IF s.right.pivots.arr[1] < key
                   THEN [split |-> TRUE, key |-> s.key,
                         right |-> Asserted(Escalate(s.right, key, right)),
                         node |-> self]
                   ELSE [split |-> TRUE, key |-> s.key, right |-> s.right,
                         node |-> Asserted(Escalate(self, key, right))]
             Repair(s, last_child) ==
               Place(s, IF s.left.pivots.count = s.left.children.count - 1
                          THEN [s.left EXCEPT
                                  !.pivots = SaPushBack(s.left.pivots,
                                               CASE last_child.tag = "Entry" -> last_child.k
                                                 [] last_child.tag = "Child" ->
                                                      SaLast(last_child.n.pivots)
                                                 [] OTHER -> NoPivot),
                                  !.ok = s.left.ok /\ last_child.tag # "None"]
                          ELSE s.left)
             Halved(s) == Repair(s, SaLast(s.left.children))
         IN  Halved(NodeSplit(n))

\* PBTree::insert_from below the root pointer: the descent from node n, the
\* insert into the node where the walk misses and the escalation of a split
\* through the nodes of the path.  [node, split, key, right, retry]: split
\* with (key, right) is the pair handed to the parent, retry says that
\* Some((key, value)) is returned (Node::insert split the node and stored
\* nothing).
RECURSIVE InsertFrom(_, _, _)
InsertFrom(n, key, val) ==
  LET Halved(s) ==
        [node |-> s.left, split |-> TRUE, key |-> s.key, right |-> s.right, retry |-> TRUE]
      Escalated(e, retry) ==
        [node |-> e.node, split |-> e.split, key |-> e.key, right |-> e.right,
         retry |-> retry]
      Linked(w, sub, n1) ==
        IF sub.split
          THEN Escalated(Escalate(n1, sub.key, sub.right), sub.retry)
          ELSE [node |-> n1, split |-> FALSE, key |-> 0, right |-> NodeNew,
                retry |-> sub.retry]
      Descend(w, sub) == Linked(w, sub, [n EXCEPT !.children.arr[w.idx + 1].n = sub.node])
      Walked(w) ==
        CASE w.w = "Miss" ->
               IF n.pivots.count < NUM_KEYS
                 THEN [node |-> Splice(n, key, val), split |-> FALSE, key |-> 0,
                       right |-> NodeNew, retry |-> FALSE]
                 ELSE Halved(NodeSplit(n))
          [] w.w = "Found" ->
               [node |-> [n EXCEPT !.children.arr[w.idx + 1].v = val], split |-> FALSE,
                key |-> 0, right |-> NodeNew, retry |-> FALSE]
          [] w.w = "Child" ->
               Descend(w, InsertFrom(n.children.arr[w.idx + 1].n, key, val))
          [] OTHER ->
               [node |-> [n EXCEPT !.ok = FALSE], split |-> FALSE, key |-> 0,
                right |-> NodeNew, retry |-> FALSE]
  IN  Walked(Walk(n, key))

\* PBTree::insert_from at the root: a pair that reaches the top makes a new
\* root with the one pivot and the two children.  [root, retry].
RootInsertFrom(root, key, val) ==
  LET Top(r) ==
        [retry |-> r.retry,
         root |-> IF r.split
                    THEN [pivots |-> SaInsert(SaNew(NUM_KEYS, NoPivot), 0, r.key),
                          children |-> SaPushBack(
                                         SaInsert(SaNew(B, NoLink), 0,
                                                  [tag |-> "Child", n |-> r.node]),
                                         [tag |-> "Child", n |-> r.right]),
                          ok |-> TRUE]
                    ELSE r.node]
  IN  Top(InsertFrom(root, key, val))

\* Whether an assert or unwrap failed somewhere in the tree under n.
RECURSIVE Poisoned(_)
Poisoned(n) ==
  \/ ~n.ok \/ ~n.pivots.ok \/ ~n.children.ok
  \/ \E i \in 1..B : IF n.children.arr[i].tag = "Child"
                       THEN Poisoned(n.children.arr[i].n) ELSE FALSE

\* PBTree::insert: insert_from, and once more from the root if the first
\* descent split a node; the second one is asserted to store the pair.
PBInsert(root, key, val) ==
  LET Result(out, failed) ==
        [root |-> out, res |-> IF Poisoned(out) \/ failed THEN "Panic" ELSE "Ok"]
      Second(r2) == Result(r2.root, r2.retry)
      First(r1) ==
        IF r1.retry THEN Second(RootInsertFrom(r1.root, key, val))
                    ELSE Result(r1.root, FALSE)
  IN  First(RootInsertFrom(root, key, val))

\* PBTree::get: the value, 0 for None, -1 for a panic (unwrap of an empty
\* slot, or unreachable!()).
RECURSIVE PBGet(_, _)
PBGet(n, key) ==
  LET Walked(w, c) ==
        CASE w.w = "Miss" -> 0
          [] w.w = "Found" -> c.v
          [] w.w = "Child" -> PBGet(c.n, key)
          [] OTHER -> -1
      Child(w) == Walked(w, n.children.arr[w.idx + 1])
  IN  Child(Walk(n, key))

\* Node::is_valid: "Valid" (true), "Invalid" (false) or "Panic" (an unwrap of
\* an empty slot).  pivots.iter() skips the empty slots, children.get(idx)
\* does not.  With lone a child that holds a single pivot may have it equal
\* to the parent's pivot: a split with B = 4 leaves one pivot in the right
\* half, one with the source's B = 16 leaves seven.
RECURSIVE ValidFrom(_, _)
ValidFrom(n, lone) ==
  LET piv == SelectSeq(n.pivots.arr, LAMBDA p : p # NoPivot)
      Sub(c, pivot, low, high) ==
        IF low = NoPivot THEN "Panic"
        ELSE IF ~(low < pivot) /\ ~(lone /\ c.pivots.count = 1 /\ low = pivot) THEN "Invalid"
        ELSE IF high = NoPivot THEN "Panic"
        ELSE IF high # pivot THEN "Invalid"
        ELSE ValidFrom(c, lone)
      Left(c, pivot) ==
        CASE c.tag = "None" -> "Panic"
          [] c.tag = "Entry" -> "Valid"
          [] OTHER -> Sub(c.n, pivot, c.n.pivots.arr[1], SaLast(c.n.pivots))
      At(i) == Left(n.children.arr[i], piv[i])
      First(bad) == IF bad = {} THEN "Valid" ELSE At(Min(bad))
  IN  First({i \in 1..Len(piv) : At(i) # "Valid"})
IsValid(n) == ValidFrom(n, FALSE)

IdlePBVars ==
  /\ proot = NodeNew
  /\ pwant = [k \in PKeys |-> 0]
  /\ pres = [op |-> "new", key |-> 0, res |-> "Ok"]

\* tree.insert(key, val, &pal): the first insert of a key stores 1, a later
\* one 2; pwant remembers the value inserted last.
PBTreeInsert ==
  /\ sys = "pbtree"
  /\ pres.res = "Ok"
  /\ \E key \in PKeys :
       /\ \/ pwant[key] = 0
          \/ pwant[key] = 1 /\ Cardinality({k \in PKeys : pwant[k] = 2}) < MaxReinserts
       /\ \E r \in {PBInsert(proot, key, pwant[key] + 1)} :
            /\ proot' = IF r.res = "Ok" THEN r.root ELSE proot
            /\ pwant' = IF r.res = "Ok" THEN [pwant EXCEPT ![key] = pwant[key] + 1] ELSE pwant
            /\ pres' = [op |-> "insert", key |-> key, res |-> r.res]
  /\ UNCHANGED <<sys, migVars, polVars, leafVars, cacheVars, treeVars, dmlVars, tres>>

(***************************************************************************)
(* MigrationPolicy::migrate (migration/mod.rs), the default                *)
(* implementation of the trait.  Fractions (f32 in the code) are counted   *)
(* in tenths: a threshold t stands for t / 10.  A tier's StorageInfo is    *)
(* [some, free, total]; some = FALSE: free_space_tier returns None.        *)
(***************************************************************************)
NUM_STORAGE_CLASSES == 3  \* storage classes (tiers), the fastest is class 0
MaxTotal == 2             \* blocks of the largest tier
MaxMoved == 1             \* blocks one promote or demote call moves

Classes == 0..(NUM_STORAGE_CLASSES - 1)
Thresholds == {-5, 5, 15}
NoInfo == [some |-> FALSE, free |-> 0, total |-> 0]
StorageInfos ==
  {NoInfo} \cup {[some |-> TRUE, free |-> 0, total |-> 0]}
    \cup {[some |-> TRUE, free |-> f, total |-> MaxTotal] : f \in 0..MaxTotal}
\* The call of one migrate that returns Err, if any: a promote or a demote
\* on a tier, or metrics; every other call returns Ok.
Failures ==
  {[fn |-> "none", tier |-> 0], [fn |-> "metrics", tier |-> 0]}
    \cup {[fn |-> f, tier |-> c] : f \in {"promote", "demote"}, c \in Classes}

\* val.clamp(0.0, 1.0)
Clamp(t) == IF t < 0 THEN 0 ELSE IF t > 10 THEN 10 ELSE t

\* StorageInfo::percent_full: 1 - free / total, as the fraction num / den;
\* a tier without capacity yields 0 / 0, which is not a number (nan).
PercentFull(i) == [nan |-> i.total = 0, num |-> i.total - i.free, den |-> i.total]

\* the comparison with the wrong side of the boundary
AtLeastStrict(pf, t) == ~pf.nan /\ pf.num * 10 > t * pf.den

\* percent_full() >= threshold, > threshold, < threshold (false for nan)
AtLeast(pf, t) == ~pf.nan /\ pf.num * 10 >= t * pf.den
Above(pf, t) == ~pf.nan /\ pf.num * 10 > t * pf.den
Below(pf, t) == ~pf.nan /\ pf.num * 10 < t * pf.den

\* infos: the classes for which free_space_tier returns Some, ascending.
Infos(I) ==
  LET P == {c \in Classes : I[c].some}
  IN  [i \in 1..Cardinality(P) |-> CHOOSE c \in P : Cardinality({d \in P : d < c}) = i - 1]

\* the desired count with the free blocks left out
DesiredNoFree(i, t) == (i.total * (10 - t)) \div 10

\* (total as f32 * (1.0 - threshold)) as u64 - free
Desired(i, t) == ((i.total * (10 - t)) \div 10) - i.free

\* What a call moves: n blocks leave the tier from and arrive in the tier
\* to, as far as from holds them and to has room for them.
MoveBlocks(I, from, to, n) ==
  LET m == Min({n, I[from].total - I[from].free, I[to].free})
  IN  [I EXCEPT ![from].free = @ + m, ![to].free = @ - m]


\* The first loop over infos.tuple_windows(): R is [info, calls, res]; snap
\* and tiers are the infos read before the loop; a promote that returns Ok
\* has moved mv[low] blocks up.
RECURSIVE PromoteLoop(_, _, _, _, _, _, _)
PromoteLoop(R, snap, tiers, thr, mv, fail, i) ==
  IF i >= Len(tiers)
    THEN R
    ELSE LET high == tiers[i]
             low == tiers[i + 1]
         IN  IF snap[low].total = 0
               THEN PromoteLoop(R, snap, tiers, thr, mv, fail, i + 1)
               ELSE LET call == [fn |-> "promote", tier |-> low,
                                 tight |-> AtLeast(PercentFull(snap[high]), Clamp(thr[high])),
                                 desired |-> 0]
                    IN  IF fail = [fn |-> "promote", tier |-> low]
                          THEN [R EXCEPT !.calls = Append(@, call), !.res = "PromoteErr"]
                          ELSE PromoteLoop(
                                 [R EXCEPT !.calls = Append(@, call),
                                           !.info = MoveBlocks(@, low, high, mv[low])],
                                 snap, tiers, thr, mv, fail, i + 1)

\* The second loop, over the infos read again after the first one; a demote
\* that returns Ok has moved mv[high] blocks down.
RECURSIVE DemoteLoop(_, _, _, _, _, _, _)
DemoteLoop(R, snap, tiers, thr, mv, fail, i) ==
  IF i >= Len(tiers)
    THEN R
    ELSE LET high == tiers[i]
             low == tiers[i + 1]
         IN  IF ~(/\ Above(PercentFull(snap[high]), Clamp(thr[high]))
                  /\ Below(PercentFull(snap[low]), Clamp(thr[low])))
               THEN DemoteLoop(R, snap, tiers, thr, mv, fail, i + 1)
               ELSE LET desired == Desired(snap[high], Clamp(thr[high]))
                        call == [fn |-> "demote", tier |-> high, tight |-> FALSE,
                                 desired |-> desired]
                    IN  IF desired < 0
                          THEN [R EXCEPT !.res = "Underflow"]
                          ELSE IF fail = [fn |-> "demote", tier |-> high]
                            THEN [R EXCEPT !.calls = Append(@, call), !.res = "DemoteErr"]
                            ELSE DemoteLoop(
                                   [R EXCEPT !.calls = Append(@, call),
                                             !.info = MoveBlocks(@, high, low, mv[high])],
                                   snap, tiers, thr, mv, fail, i + 1)

\* migrate: [info, calls, res, reread]; reread is the infos as read for the
\* second loop; metrics() is the last call.
Migrate(I, thr, mv, fail) ==
  LET P == PromoteLoop([info |-> I, calls |-> <<>>, res |-> "Ok"], I, Infos(I), thr, mv,
                       fail, 1)
      D == DemoteLoop(P, P.info, Infos(P.info), thr, mv, fail, 1)
  IN  IF P.res # "Ok"
        THEN [info |-> P.info, calls |-> P.calls, res |-> P.res, reread |-> I]
        ELSE [info |-> D.info, calls |-> D.calls, reread |-> P.info,
              res |-> IF D.res = "Ok" /\ fail.fn = "metrics" THEN "MetricsErr" ELSE D.res]

IdleMigVars ==
  /\ minfo = [c \in Classes |-> NoInfo]
  /\ mthr = [c \in Classes |-> 0]
  /\ mcalls = <<>>
  /\ mres = [op |-> "new", res |-> "Ok", reread |-> [c \in Classes |-> NoInfo]]

MigMigrate ==
  /\ sys = "migrate"
  /\ \E mv \in [Classes -> 0..MaxMoved], fail \in Failures :
       \E r \in {Migrate(minfo, mthr, mv, fail)} :
         /\ minfo' = r.info
         /\ mcalls' = r.calls
         /\ mres' = [op |-> "migrate", res |-> r.res, reread |-> r.reread]
  /\ UNCHANGED <<sys, mthr, pbVars, polVars, leafVars, cacheVars, treeVars, dmlVars, tres>>

(***************************************************************************)
(* The main loop of a placement policy (PlacementPolicy::main, the same    *)
(* text in PlacementPolicyAnatomy::main) and terminate().  mimpl says what *)
(* runs it: "Anatomy", the PlacementPolicyAnatomy that spawn_policy        *)
(* starts, whose config() and migrate() are todo!(), or "Implementor", a   *)
(* type that implements the trait's methods.  mpc is the statement main    *)
(* is at.                                                                  *)
(***************************************************************************)
MaxCycles == 6     \* cycles of the main loop per behaviour

IdlePolVars ==
  /\ mimpl = "Anatomy"
  /\ mpc = "idle"
  /\ mterm = FALSE
  /\ mupd = 0
  /\ mmig = 0
  /\ mcyc = 0

\* let config = self.config(); std::thread::sleep(config.grace_period);
MainConfig ==
  /\ sys = "policy"
  /\ mpc = "config"
  /\ mpc' = IF mimpl = "Anatomy" THEN "Panic" ELSE "update"
  /\ UNCHANGED <<sys, mimpl, mterm, mupd, mmig, mcyc, pbVars, migVars, leafVars, cacheVars,
                 treeVars, dmlVars, tres>>

\* self.update()?
MainUpdate ==
  /\ sys = "policy"
  /\ mpc = "update"
  /\ \E update_ok \in BOOLEAN : mpc' = IF update_ok THEN "elapsed" ELSE "Err"
  /\ mupd' = IF mterm THEN mupd + 1 ELSE mupd
  /\ UNCHANGED <<sys, mimpl, mterm, mmig, mcyc, pbVars, migVars, leafVars, cacheVars,
                 treeVars, dmlVars, tres>>

\* if migrated.elapsed() > config.update_period { self.migrate(); ... }
\* and the sleep of one second
MainMigrate ==
  /\ sys = "policy"
  /\ mpc = "elapsed"
  /\ \E elapsed \in BOOLEAN :
       mmig' = IF elapsed /\ mterm THEN mmig + 1 ELSE mmig
  /\ mpc' = "check"
  /\ UNCHANGED <<sys, mimpl, mterm, mupd, mcyc, pbVars, migVars, leafVars, cacheVars,
                 treeVars, dmlVars, tres>>

\* if self.is_terminated() { break; } ... Ok(())
MainCheck ==
  /\ sys = "policy"
  /\ mpc = "check"
  /\ IF mterm
       THEN mpc' = "Ok" /\ mcyc' = mcyc
       ELSE mcyc < MaxCycles /\ mpc' = "update" /\ mcyc' = mcyc + 1
  /\ UNCHANGED <<sys, mimpl, mterm, mupd, mmig, pbVars, migVars, leafVars, cacheVars,
                 treeVars, dmlVars, tres>>

\* terminate(), called by another thread: self.terminated.store(true, _)
PolTerminate ==
  /\ sys = "policy"
  /\ ~mterm
  /\ mterm' = TRUE
  /\ UNCHANGED <<sys, mimpl, mpc, mupd, mmig, mcyc, pbVars, migVars, leafVars, cacheVars,
                 treeVars, dmlVars, tres>>

IdleAuxVars == IdlePBVars /\ IdleMigVars /\ IdlePolVars

(***************************************************************************)
(* Plru (replication/lru.rs).  A list state L is [root, nodes]: the Plru   *)
(* root record and the memory of the nodes.  fwd points towards the head   *)
(* (more recently used), back towards the tail.                            *)
(***************************************************************************)
NoNode == [fwd |-> NULL, back |-> NULL, size |-> 0, hash |-> 0, key |-> 0]

PlruInit(capacity) ==
  [head |-> NULL, tail |-> NULL, capacity |-> capacity, count |-> 0, size |-> 0]

\* cut_node_and_stitch without the update of tail
CutNodeKeepTail(L, p) ==
  LET node == L.nodes[p]
      n1 == IF node.fwd # NULL
              THEN [L.nodes EXCEPT ![node.fwd].back = node.back]
              ELSE L.nodes
      n2 == IF n1[p].back # NULL
              THEN [n1 EXCEPT ![n1[p].back].fwd = n1[p].fwd]
              ELSE n1
      r2 == IF L.root.head = p THEN [L.root EXCEPT !.head = n2[p].back] ELSE L.root
      n3 == [n2 EXCEPT ![p].fwd = NULL, ![p].back = NULL]
  IN  [root |-> r2, nodes |-> n3]

\* Plru::cut_node_and_stitch, statement by statement.
CutNodeAndStitch(L, p) ==
  LET node == L.nodes[p]
      n1 == IF node.fwd # NULL
              THEN [L.nodes EXCEPT ![node.fwd].back = node.back]
              ELSE L.nodes
      r1 == IF L.root.tail = p THEN [L.root EXCEPT !.tail = node.fwd] ELSE L.root
      n2 == IF n1[p].back # NULL
              THEN [n1 EXCEPT ![n1[p].back].fwd = n1[p].fwd]
              ELSE n1
      r2 == IF r1.head = p THEN [r1 EXCEPT !.head = n2[p].back] ELSE r1
      n3 == [n2 EXCEPT ![p].fwd = NULL, ![p].back = NULL]
  IN  [root |-> r2, nodes |-> n3]

\* Plru::touch
PlruTouch(L, p) ==
  IF L.root.head = p
    THEN L
    ELSE LET C == CutNodeAndStitch(L, p)
             oh == C.root.head
             n1 == [C.nodes EXCEPT ![oh].fwd = p]
             n2 == [n1 EXCEPT ![p].back = C.root.head]
         IN  [root |-> [C.root EXCEPT !.head = p], nodes |-> n2]

\* Plru::insert.  It never fails: there is no presence check.
PlruInsert(L, p, hash, size, baggage) ==
  LET n1 == [L.nodes EXCEPT ![p] = [fwd |-> NULL, back |-> L.root.head,
                                    size |-> size, hash |-> hash, key |-> baggage]]
  IN  IF L.root.head # NULL
        THEN [root |-> [L.root EXCEPT !.head = p, !.size = @ + size, !.count = @ + 1],
              nodes |-> [n1 EXCEPT ![L.root.head].fwd = p]]
        ELSE [root |-> [L.root EXCEPT !.head = p, !.tail = p,
                                      !.size = @ + size, !.count = @ + 1],
              nodes |-> n1]

\* evict that names the tail whatever the sizes
PlruEvictAnySize(L, size) ==
  IF L.root.tail # NULL
    THEN [some |-> TRUE, hash |-> L.nodes[L.root.tail].hash,
          key |-> L.nodes[L.root.tail].key]
    ELSE [some |-> FALSE, hash |-> 0, key |-> 0]

\* Plru::evict: the tail's (hash, baggage) when an eviction is necessary.
NoVictim == [some |-> FALSE, hash |-> 0, key |-> 0]
PlruEvict(L, size) ==
  IF L.root.tail # NULL /\ L.root.size + size > L.root.capacity
    THEN [some |-> TRUE, hash |-> L.nodes[L.root.tail].hash,
          key |-> L.nodes[L.root.tail].key]
    ELSE NoVictim

\* Plru::remove
PlruRemove(L, p) ==
  LET C == CutNodeAndStitch(L, p)
  IN  [root |-> [C.root EXCEPT !.size = @ - C.nodes[p].size, !.count = @ - 1],
       nodes |-> C.nodes]

(***************************************************************************)
(* PersistentCache (replication/mod.rs).  A cache state S is               *)
(* [root, nodes, map, alloc].  The data region of an entry is kept by its  *)
(* content (a tag) and its length; its PalPtr is not modelled.             *)
(***************************************************************************)
NoEntry == [size |-> 0, lru_node |-> NULL, data |-> 0]

CacheState == [root |-> plru, nodes |-> pnode, map |-> pmap, alloc |-> palloc]

LruOf(S) == [root |-> S.root, nodes |-> S.nodes]

WithLru(S, L) == [S EXCEPT !.root = L.root, !.nodes = L.nodes]

\* Pal::allocate for an LRU node: a pointer that is not allocated.
PalAllocate(S) == Min(Ptrs \ S.alloc)

\* PalPtr::free of an LRU node.  Nothing reads a freed node, so its memory
\* is kept as NoNode (whatever the allocator leaves there).
PalFree(S, p) == [S EXCEPT !.alloc = @ \ {p}, !.nodes[p] = NoNode]

\* The body of the eviction loop after a successful write-back, and of
\* PersistentCache::remove:
\* map.remove(&key); entry.data.free(); lru.remove(&entry.lru_node); free.
EvictVictim(S, h) ==
  LET entry == S.map[h]
      L == PlruRemove(LruOf(S), entry.lru_node)
  IN  PalFree([WithLru(S, L) EXCEPT !.map[h] = NoEntry], entry.lru_node)

\* The tail of PersistentCacheInsertion::insert: allocate, link, map.insert.
InstallEntry(S, key, len, tag) ==
  LET p == PalAllocate(S)
      L == PlruInsert(LruOf(S), p, key, len, tag)
  IN  [WithLru(S, L) EXCEPT !.alloc = @ \cup {p},
                            !.map[key] = [size |-> len, lru_node |-> p, data |-> tag]]

\* PersistentCacheInsertion::insert.  failAt is the number of write-back
\* calls that succeed before write_back_fn returns an error (-1: never).
\* The result is [S, res, calls]: the cache, the outcome and the write-back
\* calls made, each <<hash, baggage, data>>.
\* (The next cache state and call list are bound by a set comprehension so
\* that each iteration works on an evaluated state.)
RECURSIVE InsertLoop(_, _, _, _, _, _, _)
InsertLoop(S, key, len, tag, failAt, calls, fuel) ==
  LET v == PlruEvict(LruOf(S), len)
  IN  IF ~v.some \/ fuel = 0
        THEN IF Ptrs \ S.alloc = {}
               THEN [S |-> S, res |-> "AllocPanic", calls |-> calls]
               ELSE [S |-> InstallEntry(S, key, len, tag), res |-> "Ok", calls |-> calls]
        ELSE IF S.map[v.hash] = NoEntry
               THEN [S |-> S, res |-> "UnwrapPanic", calls |-> calls]
               ELSE IF Len(calls) = failAt
                      THEN [S |-> S, res |-> "ExternalError",
                            calls |-> Append(calls, <<v.hash, v.key, S.map[v.hash].data>>)]
                      ELSE CHOOSE r \in
                             { InsertLoop(T, key, len, tag, failAt, c, fuel - 1) :
                                 T \in {EvictVictim(S, v.hash)},
                                 c \in {Append(calls, <<v.hash, v.key, S.map[v.hash].data>>)} } :
                             TRUE

CacheInsertRun(S, key, len, tag, failAt) ==
  InsertLoop(S, key, len, tag, failAt, <<>>, MaxEvictions)

InitCacheVars ==
  /\ plru = PlruInit(CacheBytes)
  /\ pnode = [p \in Ptrs |-> NoNode]
  /\ pmap = [h \in Hashes |-> NoEntry]
  /\ palloc = {}
  /\ cres = [op |-> "create", res |-> "Ok", key |-> 0, calls |-> <<>>]

SetCache(S) ==
  /\ plru' = S.root
  /\ pnode' = S.nodes
  /\ pmap' = S.map
  /\ palloc' = S.alloc

\* prepare_insert(key, value, baggage).insert(write_back_fn)
CacheInsert ==
  /\ sys = "cache"
  /\ \E key \in Hashes, len \in Lens, tag \in Tags, failAt \in -1..(MaxPtr - 1) :
       \E r \in {CacheInsertRun(CacheState, key, len, tag, failAt)} :
           /\ r.res # "AllocPanic"
           /\ SetCache(r.S)
           /\ cres' = [op |-> "insert", res |-> r.res, key |-> key,
                       calls |-> r.calls]
  /\ UNCHANGED <<sys, pbVars, migVars, polVars, leafVars, treeVars, dmlVars, tres>>

\* PersistentCache::get
CacheGet ==
  /\ sys = "cache"
  /\ \E key \in Hashes :
       /\ IF pmap[key] # NoEntry
            THEN /\ SetCache(WithLru(CacheState,
                                     PlruTouch(LruOf(CacheState), pmap[key].lru_node)))
                 /\ cres' = [op |-> "get", res |-> "Ok", key |-> key,
                             calls |-> <<>>]
            ELSE /\ SetCache(CacheState)
                 /\ cres' = [op |-> "get", res |-> "DoesNotExist", key |-> key,
                             calls |-> <<>>]
  /\ UNCHANGED <<sys, pbVars, migVars, polVars, leafVars, treeVars, dmlVars, tres>>

\* PersistentCache::remove
CacheRemove ==
  /\ sys = "cache"
  /\ \E key \in Hashes :
       /\ IF pmap[key] # NoEntry
            THEN /\ SetCache(EvictVictim(CacheState, key))
                 /\ cres' = [op |-> "remove", res |-> "Ok", key |-> key,
                             calls |-> <<>>]
            ELSE /\ SetCache(CacheState)
                 /\ cres' = [op |-> "remove", res |-> "DoesNotExist", key |-> key,
                             calls |-> <<>>]
  /\ UNCHANGED <<sys, pbVars, migVars, polVars, leafVars, treeVars, dmlVars, tres>>

(***************************************************************************)
(* Claims about the persistent replication cache.                          *)
(***************************************************************************)
\* The nodes linked in the list, walking back from the head.
RECURSIVE WalkBack(_, _, _)
WalkBack(nodes, p, fuel) ==
  IF p = NULL \/ fuel = 0 THEN <<>> ELSE <<p>> \o WalkBack(nodes, nodes[p].back, fuel - 1)

Linked == WalkBack(pnode, plru.head, MaxPtr)
LinkedSet == {Linked[i] : i \in 1..Len(Linked)}
Resident == {h \in Hashes : pmap[h] # NoEntry}

RECURSIVE SumSizes(_)
SumSizes(H) ==
  IF H = {} THEN 0 ELSE LET h == Min(H) IN pmap[h].size + SumSizes(H \ {h})

\* C9: PersistentCacheInsertion::insert is all-or-nothing: an insertion that
\* returns the write-back error leaves the map and the LRU (order, size,
\* count) exactly as they were before the call.
C9_InsertAllOrNothing ==
  [][(cres'.op = "insert" /\ cres'.res = "ExternalError")
       => UNCHANGED <<plru, pnode, pmap>>]_vars

\* C10: after any sequence of insertions (also of a resident key), gets and
\* removes, the map and the LRU list are in one-to-one correspondence,
\* lru.size is the sum of the resident entries' sizes and lru.count is the
\* number of map entries.
C10_MapLruCorrespondence ==
  /\ \A h \in Resident :
        /\ pmap[h].lru_node \in LinkedSet
        /\ pnode[pmap[h].lru_node].hash = h
        /\ pnode[pmap[h].lru_node].size = pmap[h].size
  /\ \A p \in LinkedSet :
        /\ pnode[p].hash \in Resident
        /\ pmap[pnode[p].hash].lru_node = p
  /\ plru.size = SumSizes(Resident)
  /\ plru.count = Cardinality(Resident)

(***************************************************************************)
(* The objects of a tree, along the root-to-leaf path of the keys.  Node l *)
(* (1 <= l <= depth) is the internal node of level l, node depth + 1 is    *)
(* the leaf; node 1 is the root.  A Disjoint (NVM) internal node keeps the *)
(* message buffer of its child edge in an object of its own, BufObj(l).    *)
(* Siblings off the path hold nothing these operations read.               *)
(***************************************************************************)
Levels == 1..MaxLevels
Keys == 1..MaxKey
EmptyKey == 0
Root == 1
LeafObj == depth + 1
BufObj(l) == MaxLevels + 1 + l
Objs == 1..(2 * MaxLevels + 1)
DisjointLevels == {l \in 1..depth : kind[l] = "Disjoint"}
LiveObjs == (1..(depth + 1)) \cup {BufObj(l) : l \in DisjointLevels}

\* Object::for_each_child: the child references a node holds.
Children(o) ==
  IF o \in 1..depth
    THEN {o + 1} \cup (IF kind[o] = "Disjoint" THEN {BufObj(o)} ELSE {})
    ELSE {}

Parent(o) == IF o \in 2..(depth + 1) THEN o - 1 ELSE IF o > MaxLevels + 1 THEN o - MaxLevels - 1 ELSE 0

(***************************************************************************)
(* ObjectRef and the DML (data_management/mod.rs; the Dmu implementation   *)
(* is outside the sources, the transitions follow the design document).    *)
(* A DML state D is [refs, next, frees].                                   *)
(***************************************************************************)
NoRef == [st |-> "None", ptr |-> 0, old |-> 0]
NoFree == [n |-> 0, reason |-> "None"]

DmlState == [refs |-> oref, next |-> nextPtr, frees |-> frees]

\* ObjectReference::get_unmodified: Some(pointer) only in the Unmodified state.
GetUnmodified(r) == IF r.st = "Unmodified" THEN r.ptr ELSE 0

\* Extents 1 .. FirstGen - 1 hold the objects of the opened tree.
FirstGen == 2 * MaxLevels + 2

\* Dml::try_get_mut: succeeds only if the object is already Modified.
TryGetMut(D, o) == D.refs[o].st = "Modified"

\* The allocation handler's copy_on_write: release an extent, with the reason.
CopyOnWrite(D, p, reason) ==
  [D EXCEPT !.frees[p] = [n |-> @.n + 1, reason |-> reason]]

\* get_mut whose steal leaves the in-flight extent allocated.
GetMutKeepExtent(D, o) ==
  LET r == D.refs[o]
  IN  CASE r.st = "Unmodified" ->
             [D EXCEPT !.refs[o] = [st |-> "Modified", ptr |-> 0, old |-> r.ptr]]
        [] r.st = "InWriteback" ->
             [D EXCEPT !.refs[o] = [st |-> "Modified", ptr |-> 0, old |-> r.old]]
        [] OTHER -> D

\* Dml::get_mut: Unmodified -> Modified remembers the old extent for the
\* deferred free; InWriteback -> Modified (steal) frees the in-flight extent.
GetMut(D, o) ==
  LET r == D.refs[o]
  IN  CASE r.st = "Unmodified" ->
             [D EXCEPT !.refs[o] = [st |-> "Modified", ptr |-> 0, old |-> r.ptr]]
        [] r.st = "InWriteback" ->
             CopyOnWrite([D EXCEPT !.refs[o] = [st |-> "Modified", ptr |-> 0, old |-> r.old]],
                         r.ptr, "Steal")
        [] OTHER -> D

\* write_back that packs a node whatever the state of its children.
CanBeginWriteBackUnchecked(D, o) == D.refs[o].st = "Modified"

\* write_back steps (c)-(e), first half: all children are Unmodified, the
\* node is packed, an extent is allocated and the write is issued.
CanBeginWriteBack(D, o) ==
  /\ D.refs[o].st = "Modified"
  /\ \A c \in Children(o) : D.refs[c].st = "Unmodified"

\* write_back whose reference skips the InWriteback state.
BeginWriteBackDone(D, o) ==
  [D EXCEPT !.refs[o] = [st |-> "Unmodified", ptr |-> D.next, old |-> 0],
            !.next = @ + 1]

BeginWriteBack(D, o) ==
  [D EXCEPT !.refs[o] = [st |-> "InWriteback", ptr |-> D.next, old |-> @.old],
            !.next = @ + 1]

\* write_back step (e), second half: the write completed; the extent the
\* object was copied from is released.
FinishWriteBack(D, o) ==
  LET r == D.refs[o]
      D1 == [D EXCEPT !.refs[o] = [st |-> "Unmodified", ptr |-> r.ptr, old |-> 0]]
  IN  IF r.old # 0 THEN CopyOnWrite(D1, r.old, "Remove") ELSE D1

\* write_back that does not return an Unmodified reference as it is.
RECURSIVE WriteBackAlways(_, _)
WriteBackAlways(D, o) ==
  LET kids == Children(o)
      D0 == GetMut(D, o)
      D1 == IF o + 1 \in kids
              THEN CHOOSE x \in {WriteBackAlways(D0, o + 1)} : TRUE
              ELSE D0
      D2 == IF BufObj(o) \in kids /\ o <= MaxLevels
              THEN CHOOSE x \in {WriteBackAlways(D1, BufObj(o))} : TRUE
              ELSE D1
      D3 == IF D2.refs[o].st = "Modified" THEN BeginWriteBack(D2, o) ELSE D2
  IN  FinishWriteBack(D3, o)

\* Dml::write_back without interference: post-order over the subtree of o.
\* An Unmodified reference is returned as it is.
RECURSIVE WriteBack(_, _)
WriteBack(D, o) ==
  IF D.refs[o].st = "Unmodified"
    THEN D
    ELSE LET kids == Children(o)
             D1 == IF o + 1 \in kids
                     THEN CHOOSE x \in {WriteBack(D, o + 1)} : TRUE
                     ELSE D
             D2 == IF BufObj(o) \in kids /\ o <= MaxLevels
                     THEN CHOOSE x \in {WriteBack(D1, BufObj(o))} : TRUE
                     ELSE D1
             D3 == IF D2.refs[o].st = "Modified" THEN BeginWriteBack(D2, o) ELSE D2
         IN  FinishWriteBack(D3, o)

\* The extents write_back(o) would allocate.
RECURSIVE Dirty(_, _)
Dirty(D, o) ==
  IF D.refs[o].st = "Unmodified"
    THEN 0
    ELSE 1 + (IF o \in 1..depth THEN Dirty(D, o + 1) ELSE 0)
           + (IF o \in DisjointLevels THEN Dirty(D, BufObj(o)) ELSE 0)

SetDml(D) ==
  /\ oref' = D.refs
  /\ nextPtr' = D.next
  /\ frees' = D.frees

(***************************************************************************)
(* Messages.  The message of the n-th insert sets the value to n; lo and   *)
(* hi are the oldest and the newest insert merged into a message or entry. *)
(* MessageAction is supplied by the user of the tree: here every message   *)
(* is a 'set'.                                                             *)
(***************************************************************************)
NoMsg == [val |-> 0, lo |-> 0, hi |-> 0]

Lower(a, b) == IF a <= b THEN a ELSE b
Higher(a, b) == IF a >= b THEN a ELSE b

\* MessageAction::apply / apply_to_leaf of a 'set' message.
ApplyMsg(msg, data) == msg.val

\* Merging an upper (later) message onto a lower (earlier) message or entry.
MergeMsg(upper, lower) ==
  IF lower = NoMsg
    THEN upper
    ELSE [val |-> ApplyMsg(upper, lower.val),
          lo |-> Lower(lower.lo, upper.lo), hi |-> Higher(lower.hi, upper.hi)]

\* Whether the buffer object of a Disjoint level is in the cache: a dirty
\* object always is, a clean one as the (shared) cache's evictions left it.
BufResident(D, l, resid) == D.refs[BufObj(l)].st # "Unmodified" \/ l \in resid

(***************************************************************************)
(* Tree::insert (tree/imp/mod.rs).                                         *)
(***************************************************************************)
\* The descent loop with the emptiness check of the dissected node left out.
RECURSIVE InsertDescentNoCheck(_, _, _, _)
InsertDescentNoCheck(D, key, resid, l) ==
  IF l = depth + 1
    THEN l
    ELSE IF kind[l] = "Internal"
      THEN IF buf[l][key] = NoMsg /\ TryGetMut(D, l + 1)
             THEN InsertDescentNoCheck(D, key, resid, l + 1)
             ELSE l
      ELSE IF BufResident(D, l, resid) /\ TryGetMut(D, l + 1)
             THEN InsertDescentNoCheck(D, key, resid, l + 1)
             ELSE l

\* The descent entering each child with get_mut instead of try_get_mut.
RECURSIVE InsertDescentGetMut(_, _, _, _)
InsertDescentGetMut(D, key, resid, l) ==
  IF l = depth + 1
    THEN l
    ELSE IF kind[l] = "Internal"
      THEN IF buf[l][key] = NoMsg
             THEN InsertDescentGetMut(D, key, resid, l + 1)
             ELSE l
      ELSE IF BufResident(D, l, resid) /\ buf[l][key] = NoMsg
             THEN InsertDescentGetMut(D, key, resid, l + 1)
             ELSE l

\* The descent loop: from node l, held mutably, to the node that takes the
\* message.  Internal: try_walk yields the child edge unless its buffer
\* holds the key; Disjoint: the buffer must be in the cache and hold no
\* message for the key; then the child is entered if try_get_mut succeeds.
RECURSIVE InsertDescent(_, _, _, _)
InsertDescent(D, key, resid, l) ==
  IF l = depth + 1
    THEN l
    ELSE IF kind[l] = "Internal"
      THEN IF buf[l][key] = NoMsg /\ TryGetMut(D, l + 1)
             THEN InsertDescent(D, key, resid, l + 1)
             ELSE l
      ELSE IF BufResident(D, l, resid) /\ buf[l][key] = NoMsg /\ TryGetMut(D, l + 1)
             THEN InsertDescent(D, key, resid, l + 1)
             ELSE l

\* Tree::get_mut_root_node
GetMutRootNode(D) == IF TryGetMut(D, Root) THEN D ELSE GetMut(D, Root)

\* NVMLeafNode::insert: the message is applied to the stored value.
LeafInsert(lf, key, msg) == [lf EXCEPT ![key] = MergeMsg(msg, lf[key])]

\* Node::insert on an internal node: the message is merged into the buffer
\* of the key's child edge.
BufferInsert(b, l, key, msg) == [b EXCEPT ![l][key] = MergeMsg(msg, b[l][key])]

\* A tree state T is [buf, leaf, D].
\* Flush of the child edge of level l (design document 4.4): the child is
\* loaded with get_mut, the buffered messages are applied to it in order and
\* the edge is cleared.
Flush(T, l) ==
  LET D1 == IF kind[l] = "Disjoint" THEN GetMut(T.D, BufObj(l)) ELSE T.D
      D2 == GetMut(D1, l + 1)
      D3 == IF l + 1 <= depth /\ kind[l + 1] = "Disjoint"
              THEN GetMut(D2, BufObj(l + 1)) ELSE D2
      moved == T.buf[l]
      none == [k \in Keys |-> NoMsg]
  IN  IF l = depth
        THEN [buf |-> [T.buf EXCEPT ![l] = none],
              leaf |-> [k \in Keys |-> IF moved[k] # NoMsg
                                         THEN MergeMsg(moved[k], T.leaf[k])
                                         ELSE T.leaf[k]],
              D |-> D3]
        ELSE [buf |-> [T.buf EXCEPT
                         ![l + 1] = [k \in Keys |-> IF moved[k] # NoMsg
                                       THEN MergeMsg(moved[k], T.buf[l + 1][k])
                                       ELSE T.buf[l + 1][k]],
                         ![l] = none],
              leaf |-> T.leaf,
              D |-> D3]

\* rebalance_tree after the insert into level l: while the node exceeds its
\* size budget it flushes to its child, and the child is looked at next.
\* Sizes are not part of the model: n is the number of nodes that overflow.
RECURSIVE RebalanceTree(_, _, _)
RebalanceTree(T, l, n) ==
  IF n = 0 \/ l > depth \/ (\A k \in Keys : T.buf[l][k] = NoMsg)
    THEN T
    ELSE CHOOSE r \in {RebalanceTree(F, l + 1, n - 1) : F \in {Flush(T, l)}} : TRUE

\* Node::insert: into the leaf, or into the buffer of the key's child edge
\* (the buffer object of a Disjoint node is taken with get_mut).
NodeInsert(T, l, key, msg) ==
  IF l = depth + 1
    THEN [T EXCEPT !.leaf = LeafInsert(T.leaf, key, msg)]
    ELSE [T EXCEPT !.buf = BufferInsert(T.buf, l, key, msg),
                   !.D = IF kind[l] = "Disjoint" THEN GetMut(T.D, BufObj(l)) ELSE T.D]

SetTree(T) ==
  /\ buf' = T.buf
  /\ leaf' = T.leaf
  /\ SetDml(T.D)

\* The empty-key check placed after the root has been taken mutably.
EmptyKeyAfterRoot(T) == [T EXCEPT !.D = GetMutRootNode(T.D)]

\* if key.borrow().is_empty() { return Err(Error::EmptyKey); }: the first
\* statement of insert, before get_mut_root_node; the tree is as it was.
EmptyKeyReturn(T) == T

TreeInsert ==
  /\ sys = "tree"
  /\ \E key \in Keys \cup {EmptyKey}, resid \in SUBSET DisjointLevels, overflow \in 0..depth :
       IF key = EmptyKey
         THEN /\ overflow = 0 /\ resid = {}
              /\ SetTree(EmptyKeyReturn([buf |-> buf, leaf |-> leaf, D |-> DmlState]))
              /\ tres' = [op |-> "insert", key |-> key, res |-> "EmptyKey", msgs |-> <<>>,
                          fetched |-> {}, at |-> 0, was |-> oref[Root].st]
              /\ UNCHANGED <<depth, kind, seq>>
         ELSE /\ seq < MaxInserts
              /\ \E T0 \in {[buf |-> buf, leaf |-> leaf, D |-> GetMutRootNode(DmlState)]} :
                 \E l \in {InsertDescent(T0.D, key, resid, Root)} :
                 \E T1 \in {NodeInsert(T0, l, key, [val |-> seq + 1, lo |-> seq + 1, hi |-> seq + 1])} :
                 \E T2 \in {RebalanceTree(T1, l, overflow)} :
                   /\ SetTree(T2)
                   /\ tres' = [op |-> "insert", key |-> key, res |-> "Ok", msgs |-> <<>>,
                               fetched |-> {}, at |-> l, was |-> oref[Root].st]
              /\ seq' = seq + 1
              /\ UNCHANGED <<depth, kind>>
  /\ UNCHANGED <<sys, pbVars, migVars, polVars, leafVars, cacheVars>>

\* Tree::apply_with_info: every node on the key's path is taken mutably (the
\* buffer object of a Disjoint node too); only the key's KeyInfo changes.
RECURSIVE ApplyWalk(_, _)
ApplyWalk(D, l) ==
  IF l = depth + 1
    THEN D
    ELSE CHOOSE r \in { ApplyWalk(E, l + 1) :
           E \in {GetMut(IF kind[l] = "Disjoint" THEN GetMut(D, BufObj(l)) ELSE D, l + 1)} } : TRUE

\* The whole of apply_with_info on the tree state T: get_mut_root_node, then
\* the walk; the message payloads and the leaf's values are not written.
ApplyRun(T, key) == [T EXCEPT !.D = ApplyWalk(GetMutRootNode(T.D), Root)]

TreeApplyWithInfo ==
  /\ sys = "tree"
  /\ \E key \in Keys :
       /\ SetTree(ApplyRun([buf |-> buf, leaf |-> leaf, D |-> DmlState], key))
       /\ tres' = [op |-> "apply_with_info", key |-> key, res |-> "Ok", msgs |-> <<>>,
                   fetched |-> {}, at |-> 0, was |-> oref[Root].st]
  /\ UNCHANGED <<sys, pbVars, migVars, polVars, leafVars, cacheVars, depth, kind, seq>>

(***************************************************************************)
(* Tree::get_with_info (tree/imp/mod.rs).                                  *)
(***************************************************************************)
\* The walk from the root to the leaf.  W is [queue, unordered]: the event
\* pushed per hop (Done, or the level whose buffer is being prefetched)
\* and the messages collected directly.  Dml::prefetch returns a session
\* only if the buffer object is not in the cache.
\* Event::Done; Event::Fetching carries the level of the prefetched buffer.
Done == 0

RECURSIVE GetWalk(_, _, _, _)
GetWalk(key, resid, l, W) ==
  IF l = depth + 1
    THEN W
    ELSE IF kind[l] = "Internal"
      THEN GetWalk(key, resid, l + 1,
             [queue |-> Append(W.queue, Done),
              unordered |-> IF buf[l][key] # NoMsg
                              THEN Append(W.unordered, buf[l][key]) ELSE W.unordered])
      ELSE IF ~BufResident(DmlState, l, resid)
        THEN GetWalk(key, resid, l + 1,
               [queue |-> Append(W.queue, l), unordered |-> W.unordered])
        ELSE GetWalk(key, resid, l + 1,
               [queue |-> Append(W.queue, Done),
                unordered |-> IF buf[l][key] # NoMsg
                                THEN Append(W.unordered, buf[l][key]) ELSE W.unordered])

\* The reordering loop over prefetch_queue: a Fetching event contributes the
\* message of the prefetched buffer, a Done event pops the next message
\* collected directly.  R is [msgs, offline].
RECURSIVE Reorder(_, _, _, _)
Reorder(key, queue, i, R) ==
  IF i > Len(queue)
    THEN R.msgs
    ELSE IF queue[i] = Done
      THEN IF R.offline # <<>>
             THEN Reorder(key, queue, i + 1,
                          [msgs |-> Append(R.msgs, Head(R.offline)), offline |-> Tail(R.offline)])
             ELSE Reorder(key, queue, i + 1, R)
      ELSE Reorder(key, queue, i + 1,
                   [msgs |-> IF buf[queue[i]][key] # NoMsg
                               THEN Append(R.msgs, buf[queue[i]][key]) ELSE R.msgs,
                    offline |-> R.offline])

\* for (_keyinfo, msg) in msgs.into_iter().rev() { apply(key, &msg, &mut tmp) }
RECURSIVE FoldRev(_, _, _)
FoldRev(msgs, i, tmp) ==
  IF i = 0 THEN tmp ELSE FoldRev(msgs, i - 1, ApplyMsg(msgs[i], tmp))

\* The result of get_with_info: [res, msgs, fetched]; res 0 stands for None.
GetRun(key, resid) ==
  LET W == GetWalk(key, resid, 1, [queue |-> <<>>, unordered |-> <<>>])
      data == leaf[key]
      fetched == {W.queue[i] : i \in 1..Len(W.queue)} \ {Done}
  IN  IF data = NoMsg
        THEN [res |-> 0, msgs |-> <<>>, fetched |-> fetched, reordered |-> FALSE]
        ELSE LET msgs == Reorder(key, W.queue, 1, [msgs |-> <<>>, offline |-> W.unordered])
             IN  [res |-> FoldRev(msgs, Len(msgs), data.val), msgs |-> msgs,
                  fetched |-> fetched, reordered |-> TRUE]

TreeGet ==
  /\ sys = "tree"
  /\ \E key \in Keys, resid \in SUBSET DisjointLevels :
       LET r == GetRun(key, resid)
       IN  tres' = [op |-> IF r.reordered THEN "get" ELSE "get_none", key |-> key,
                    res |-> r.res, msgs |-> r.msgs, fetched |-> r.fetched, at |-> 0,
                    was |-> oref[Root].st]
  /\ UNCHANGED <<sys, pbVars, migVars, polVars, leafVars, cacheVars, treeVars, dmlVars>>

(***************************************************************************)
(* Tree::sync and Tree::try_lock_root (tree/imp/mod.rs).                   *)
(***************************************************************************)
\* sync: write_back on the root reference; the pointer it returns.
TreeSync ==
  /\ sys = "tree"
  /\ nextPtr + Dirty(DmlState, Root) <= MaxGen + 1
  /\ \E D \in {WriteBack(DmlState, Root)} :
       /\ SetDml(D)
       /\ tres' = [op |-> "sync", key |-> 0, res |-> D.refs[Root].ptr, msgs |-> <<>>,
                   fetched |-> {}, at |-> 0, was |-> oref[Root].st]
  /\ UNCHANGED <<sys, pbVars, migVars, polVars, leafVars, cacheVars, treeVars>>

\* try_lock_root: the root's pointer if the root is Unmodified (0: None).
TryLockRoot ==
  /\ sys = "tree"
  /\ tres' = [op |-> "try_lock_root", key |-> 0, res |-> GetUnmodified(oref[Root]),
              msgs |-> <<>>, fetched |-> {}, at |-> 0, was |-> oref[Root].st]
  /\ UNCHANGED <<sys, pbVars, migVars, polVars, leafVars, cacheVars, treeVars, dmlVars>>

\* A tree opened from its root pointer (Tree::open): every reference is
\* Unmodified; no message is buffered yet.
InitTreeVars ==
  /\ depth \in 0..MaxLevels
  /\ kind \in [Levels -> {"Internal", "Disjoint"}]
  /\ \A l \in Levels : l > depth => kind[l] = "Internal"
  /\ buf = [l \in Levels |-> [k \in Keys |-> NoMsg]]
  /\ leaf = [k \in Keys |-> NoMsg]
  /\ seq = 0
  /\ oref = [o \in Objs |-> IF o \in LiveObjs
                              THEN [st |-> "Unmodified", ptr |-> o, old |-> 0]
                              ELSE NoRef]
  /\ nextPtr = FirstGen
  /\ frees = [p \in 1..MaxGen |-> NoFree]
  /\ tres = [op |-> "open", key |-> 0, res |-> "Ok", msgs |-> <<>>, fetched |-> {}, at |-> 0,
            was |-> "Unmodified"]

InitTree == sys = "tree" /\ InitTreeVars /\ InitCacheVars /\ IdleLeafVars /\ IdleAuxVars
NextTree == TreeInsert \/ TreeApplyWithInfo \/ TreeGet \/ TreeSync \/ TryLockRoot
SpecTree == InitTree /\ [][NextTree]_vars

(***************************************************************************)
(* The DML under concurrent callers: get_mut and the steps of write_back   *)
(* interleave per object.  A caller reaches a child only through a parent  *)
(* it holds mutably (Tree::apply_with_info, Tree::insert).                 *)
(***************************************************************************)
DmlGetMut ==
  /\ sys = "dml"
  /\ \E o \in LiveObjs :
       /\ IF o = Root THEN TRUE ELSE oref[Parent(o)].st = "Modified"
       /\ SetDml(GetMut(DmlState, o))
       /\ tres' = [op |-> "get_mut", key |-> 0, res |-> 0, msgs |-> <<>>, fetched |-> {},
                   at |-> o, was |-> "Unmodified"]
  /\ UNCHANGED <<sys, pbVars, migVars, polVars, leafVars, cacheVars, treeVars>>

DmlBeginWriteBack ==
  /\ sys = "dml"
  /\ nextPtr < FirstGen + MaxWrites
  /\ \E o \in LiveObjs :
       /\ CanBeginWriteBack(DmlState, o)
       /\ SetDml(BeginWriteBack(DmlState, o))
       /\ tres' = [op |-> "begin_write_back", key |-> 0, res |-> 0, msgs |-> <<>>,
                   fetched |-> {}, at |-> 0, was |-> "Unmodified"]
  /\ UNCHANGED <<sys, pbVars, migVars, polVars, leafVars, cacheVars, treeVars>>

DmlFinishWriteBack ==
  /\ sys = "dml"
  /\ \E o \in LiveObjs :
       /\ oref[o].st = "InWriteback"
       /\ SetDml(FinishWriteBack(DmlState, o))
       /\ tres' = [op |-> "finish_write_back", key |-> 0, res |-> 0, msgs |-> <<>>,
                   fetched |-> {}, at |-> 0, was |-> "Unmodified"]
  /\ UNCHANGED <<sys, pbVars, migVars, polVars, leafVars, cacheVars, treeVars>>

DmlGetUnmodified ==
  /\ sys = "dml"
  /\ \E o \in LiveObjs :
       tres' = [op |-> "get_unmodified", key |-> 0, res |-> GetUnmodified(oref[o]),
                msgs |-> <<>>, fetched |-> {}, at |-> o, was |-> "Unmodified"]
  /\ UNCHANGED <<sys, pbVars, migVars, polVars, leafVars, cacheVars, treeVars, dmlVars>>

InitDml == sys = "dml" /\ InitTreeVars /\ InitCacheVars /\ IdleLeafVars /\ IdleAuxVars
NextDml == DmlGetMut \/ DmlBeginWriteBack \/ DmlFinishWriteBack \/ DmlGetUnmodified
SpecDml == InitDml /\ [][NextDml]_vars

\* C11: whenever an insertion returns Ok the LRU's accounted size is at most
\* its capacity, whatever the length of the value.
C11_SizeWithinCapacity ==
  (cres.op = "insert" /\ cres.res = "Ok") => plru.size <= plru.capacity

\* The nodes linked in the list, walking forward from the tail: the least
\* recently used first.
RECURSIVE WalkFwd(_, _, _)
WalkFwd(nodes, p, fuel) ==
  IF p = NULL \/ fuel = 0 THEN <<>> ELSE <<p>> \o WalkFwd(nodes, nodes[p].fwd, fuel - 1)

FromTail == WalkFwd(pnode, plru.tail, MaxPtr)

\* C12: a read or inserted entry becomes the head; the write-back calls of an
\* insertion are, in order, the nodes at the tail of the list before it, each
\* once, with the baggage and the data that were inserted together under the
\* node's key, and the victims are gone afterwards unless re-inserted.
C12_LruOrder ==
  [][ /\ (cres'.op = "get" /\ cres'.res = "Ok") => plru'.head = pmap[cres'.key].lru_node
      /\ (cres'.op = "insert" /\ cres'.res = "Ok") =>
           /\ plru'.head = pmap'[cres'.key].lru_node
           /\ Len(cres'.calls) <= Len(FromTail)
           /\ \A i \in 1..Len(cres'.calls) :
                LET p == FromTail[i]
                    call == cres'.calls[i]
                IN  /\ call = <<pnode[p].hash, pnode[p].key, pnode[p].key>>
                    /\ pmap[call[1]].lru_node = p
                    /\ call[1] # cres'.key => pmap'[call[1]] = NoEntry
                    /\ \A j \in 1..Len(cres'.calls) : j # i => cres'.calls[j][1] # call[1]
    ]_vars

(***************************************************************************)
(* Claims about the tree.                                                  *)
(***************************************************************************)
\* The messages buffered for a key on its path, shallowest first.
RECURSIVE PathMsgs(_, _)
PathMsgs(key, l) ==
  IF l > depth
    THEN <<>>
    ELSE (IF buf[l][key] # NoMsg THEN <<buf[l][key]>> ELSE <<>>) \o PathMsgs(key, l + 1)

\* Folding a list of 'set' messages, the last one first, over a value.
RECURSIVE FoldDeepestFirst(_, _)
FoldDeepestFirst(msgs, data) ==
  IF msgs = <<>>
    THEN data
    ELSE FoldDeepestFirst(SubSeq(msgs, 1, Len(msgs) - 1), msgs[Len(msgs)].val)

\* Everything the tree holds for a key: its buffered messages and leaf entry.
Held(key) ==
  PathMsgs(key, 1) \o (IF leaf[key] # NoMsg THEN <<leaf[key]>> ELSE <<>>)

IsGet == tres.op \in {"get", "get_none"}

\* C1: after insert(k, m), m setting the value to v, and no other message for
\* k merged, get(k) returns v, wherever the message is held: in the leaf or
\* still in the buffer of an internal node while the leaf has no entry.
C1_InsertThenGet ==
  (IsGet /\ Len(Held(tres.key)) = 1 /\ Held(tres.key)[1].lo = Held(tres.key)[1].hi)
    => tres.res = Held(tres.key)[1].val

\* C2: get(k) returns the fold of every message buffered for k on the path,
\* deepest first and shallowest last, over the value stored in the leaf.
C2_GetFoldsPath ==
  IsGet => tres.res = FoldDeepestFirst(PathMsgs(tres.key, 1), leaf[tres.key].val)

\* C3: for every key, a message in a shallower node was inserted later than
\* every message for the key in a deeper node and than the leaf's entry.
C3_PathOrderedByAge ==
  \A k \in Keys : \A i \in 1..Len(Held(k)) : \A j \in 1..Len(Held(k)) :
    i < j => Held(k)[i].lo > Held(k)[j].hi

\* C3 happens: a key has messages at two levels after an insert that had to
\* stop above an earlier message.
C3_Witness ==
  /\ tres.op = "insert"
  /\ tres.res = "Ok"
  /\ \E s \in 1..depth : \E d \in 1..depth :
       /\ s < d
       /\ kind[s] = "Disjoint"
       /\ tres.at = s
       /\ oref[s + 1].st = "Modified"
       /\ buf[s][tres.key] # NoMsg
       /\ buf[s][tres.key].lo < buf[s][tres.key].hi
       /\ buf[d][tres.key] # NoMsg

\* C4: when get reorders the messages, the final list is the path's messages
\* for the key, shallowest first, none dropped and none duplicated, whichever
\* hops were prefetched and whichever hops held a message.
C4_MarkersRestoreOrder ==
  tres.op = "get" => tres.msgs = PathMsgs(tres.key, 1)

\* C7: sync on an Unmodified root changes nothing in the DML and returns the
\* pointer the root holds; a sync right after a sync returns the same
\* pointer, and try_lock_root right after a sync yields that pointer.
C7_SyncIdempotent ==
  [][ /\ (tres'.op = "sync" /\ oref[Root].st = "Unmodified")
           => (UNCHANGED dmlVars /\ tres'.res = oref[Root].ptr)
      /\ (tres.op = "sync" /\ tres'.op = "sync") => tres'.res = tres.res
      /\ (tres.op = "sync" /\ tres'.op = "try_lock_root") => tres'.res = tres.res
    ]_vars

\* C7 happens: a sync found the root Unmodified with a pointer that an
\* earlier sync had written.
C7_Witness ==
  /\ tres.op = "sync"
  /\ tres.was = "Unmodified"
  /\ tres.res > 2 * MaxLevels + 1
  /\ frees[Root].reason = "Remove"

\* C26: an insert with a zero-length key returns Err(EmptyKey) and leaves
\* the tree as it was: no reference changes state (nothing is fetched, made
\* Modified or evicted), no extent is released and no message is buffered.
C26_EmptyKeyRejected ==
  [][(tres'.op = "insert" /\ tres'.key = EmptyKey)
       => (tres'.res = "EmptyKey" /\ UNCHANGED <<treeVars, dmlVars>>)]_vars

\* C26 happens: an empty key was rejected by a tree that holds messages and
\* whose root was Unmodified, so that taking the root would have shown.
C26_Witness ==
  /\ tres.op = "insert"
  /\ tres.res = "EmptyKey"
  /\ tres.was = "Unmodified"
  /\ oref[Root].st = "Unmodified"
  /\ seq > 0

\* C27: apply_with_info changes no value: no buffer's messages and no leaf
\* entry change, and get returns for every key what it returned before.
C27_ApplyKeepsValues ==
  [][tres'.op = "apply_with_info"
       => /\ buf' = buf
          /\ leaf' = leaf
          /\ \A k \in Keys : \A r \in SUBSET DisjointLevels :
               GetRun(k, r)'.res = GetRun(k, r).res ]_vars

\* C28: insert enters a child only if the child is already Modified and the
\* node it leaves holds no message for the key (a Disjoint node's buffer
\* being in the cache); it stops at the first node where that fails, the
\* message is deposited there, and no node below the root that the descent
\* enters was Unmodified or InWriteback.
C28_InsertDescent ==
  [][(tres'.op = "insert" /\ tres'.res = "Ok")
       => LET key == tres'.key
              at == tres'.at
          IN  /\ at \in 1..(depth + 1)
              /\ \A j \in 1..(at - 1) :
                   /\ oref[j + 1].st = "Modified"
                   /\ buf[j][key] = NoMsg
              /\ \/ at = depth + 1
                 \/ oref[at + 1].st # "Modified"
                 \/ buf[at][key] # NoMsg
                 \/ (kind[at] = "Disjoint" /\ oref[BufObj(at)].st = "Unmodified")
              /\ \A j \in 2..at : oref'[j].st = "Modified" /\ oref[j] = oref'[j]
              /\ \E j \in at..(depth + 1) :
                   IF j = depth + 1 THEN leaf'[key].hi = seq' ELSE buf'[j][key].hi = seq' ]_vars

\* C28 happens: an insert went down two Modified nodes and stopped above a
\* child that was not Modified.
C28_Witness ==
  /\ tres.op = "insert"
  /\ tres.res = "Ok"
  /\ tres.at = 2
  /\ depth = 3
  /\ oref[3].st = "Unmodified"
  /\ buf[2][tres.key].hi = seq

(***************************************************************************)
(* Claims about object references and write-back.                          *)
(***************************************************************************)
RefStates == {"Unmodified", "Modified", "InWriteback"}

\* The objects below o.
Descendants(o) ==
  IF o \in 1..depth
    THEN ((o + 1)..(depth + 1)) \cup {BufObj(l) : l \in {x \in DisjointLevels : x >= o}}
    ELSE {}

\* C5: every reference is in one of the three states; it changes state only
\* Unmodified -> Modified (get_mut), Modified -> InWriteback -> Unmodified
\* (write_back) and InWriteback -> Modified (get_mut during write-back);
\* get_unmodified yields the pointer exactly when the state is Unmodified.
C5_RefStateMachine ==
  /\ [](\A o \in LiveObjs : oref[o].st \in RefStates)
  /\ [](tres.op = "get_unmodified" =>
          IF oref[tres.at].st = "Unmodified"
            THEN tres.res = oref[tres.at].ptr /\ tres.res # 0
            ELSE tres.res = 0)
  /\ [][\A o \in LiveObjs : oref'[o].st # oref[o].st =>
          \/ oref[o].st = "Unmodified" /\ oref'[o].st = "Modified" /\ tres'.op = "get_mut"
          \/ oref[o].st = "Modified" /\ oref'[o].st = "InWriteback"
               /\ tres'.op = "begin_write_back"
          \/ oref[o].st = "InWriteback" /\ oref'[o].st = "Unmodified"
               /\ tres'.op = "finish_write_back"
          \/ oref[o].st = "InWriteback" /\ oref'[o].st = "Modified" /\ tres'.op = "get_mut"
      ]_vars

\* C5 happens: get_unmodified yields a pointer that a write-back produced,
\* in a behaviour where a write-back was also stolen.
C5_Witness ==
  /\ sys = "dml"
  /\ tres.op = "get_unmodified"
  /\ tres.res >= FirstGen
  /\ \E p \in 1..MaxGen : frees[p].reason = "Steal"

\* C6: while a node is being written (InWriteback), every reference below it
\* is Unmodified: no node is written while a descendant is Modified or
\* InWriteback.
C6_PostOrder ==
  \A o \in LiveObjs : oref[o].st = "InWriteback" =>
    \A d \in Descendants(o) : oref[d].st = "Unmodified"

\* C6 happens: a node is in write-back above a child that was written first.
C6_Witness ==
  /\ sys = "dml"
  /\ \E o \in 1..depth :
       /\ oref[o].st = "InWriteback"
       /\ oref[o + 1].st = "Unmodified"
       /\ oref[o + 1].ptr >= FirstGen

\* C8: get_mut on a reference that is InWriteback returns it to Modified and
\* frees the extent of the in-flight write, once, with reason Steal; no
\* later write-back hands out the stolen pointer again.
C8_Steal ==
  /\ [](\A p \in 1..MaxGen : frees[p].reason = "Steal" =>
          /\ frees[p].n = 1
          /\ \A o \in LiveObjs : oref[o].st \in {"Unmodified", "InWriteback"} => oref[o].ptr # p)
  /\ [][(tres'.op = "get_mut" /\ oref[tres'.at].st = "InWriteback") =>
          /\ oref'[tres'.at].st = "Modified"
          /\ frees[oref[tres'.at].ptr].n = 0
          /\ frees' = [frees EXCEPT ![oref[tres'.at].ptr] = [n |-> 1, reason |-> "Steal"]]
      ]_vars

\* C8 happens: the only node of a tree was stolen from its write-back and a
\* later write-back of it completed.
C8_Witness ==
  /\ sys = "dml"
  /\ depth = 0
  /\ tres.op = "finish_write_back"
  /\ oref[Root].st = "Unmodified"
  /\ \E p \in 1..MaxGen : frees[p].reason = "Steal" /\ p < oref[Root].ptr

\* The tree and the DML as they are while the cache is exercised.
IdleTreeVars ==
  /\ depth = 0
  /\ kind = [l \in Levels |-> "Internal"]
  /\ buf = [l \in Levels |-> [k \in Keys |-> NoMsg]]
  /\ leaf = [k \in Keys |-> NoMsg]
  /\ seq = 0
  /\ oref = [o \in Objs |-> IF o = Root THEN [st |-> "Unmodified", ptr |-> o, old |-> 0]
                                         ELSE NoRef]
  /\ nextPtr = FirstGen
  /\ frees = [p \in 1..MaxGen |-> NoFree]
  /\ tres = [op |-> "open", key |-> 0, res |-> "Ok", msgs |-> <<>>, fetched |-> {}, at |-> 0,
            was |-> "Unmodified"]

InitCache == sys = "cache" /\ InitCacheVars /\ IdleTreeVars /\ IdleLeafVars /\ IdleAuxVars
NextCache == CacheInsert \/ CacheGet \/ CacheRemove
SpecCache == InitCache /\ [][NextCache]_vars

(***************************************************************************)
(* A stop in the middle of an operation.  The persistent root and nodes    *)
(* are written in place (replication/lru.rs), one store after the other:   *)
(* the operators below run the first k stores of an operation, and the     *)
(* reopened cache (PersistentCache::open) sees what has been stored.       *)
(***************************************************************************)
CutStores == 6
InsertStores == 5
TouchStores == 9
RemoveStores == 8

\* The first k stores of Plru::cut_node_and_stitch.
CutNodeAndStitchUpTo(L, p, k) ==
  LET node == L.nodes[p]
      n1 == IF k >= 1 /\ node.fwd # NULL
              THEN [L.nodes EXCEPT ![node.fwd].back = node.back]
              ELSE L.nodes
      r1 == IF k >= 2 /\ L.root.tail = p THEN [L.root EXCEPT !.tail = node.fwd] ELSE L.root
      n2 == IF k >= 3 /\ n1[p].back # NULL
              THEN [n1 EXCEPT ![n1[p].back].fwd = n1[p].fwd]
              ELSE n1
      r2 == IF k >= 4 /\ r1.head = p THEN [r1 EXCEPT !.head = n2[p].back] ELSE r1
      n3 == IF k >= 5 THEN [n2 EXCEPT ![p].fwd = NULL] ELSE n2
      n4 == IF k >= 6 THEN [n3 EXCEPT ![p].back = NULL] ELSE n3
  IN  [root |-> r2, nodes |-> n4]

\* The first k stores of Plru::insert: the fields of the new node, the link
\* from the old head (or the head, in an empty list), the head (or the tail),
\* the size, the count.
PlruInsertUpTo(L, p, hash, size, baggage, k) ==
  LET oh == L.root.head
      n1 == IF k >= 1
              THEN [L.nodes EXCEPT ![p] = [fwd |-> NULL, back |-> oh, size |-> size,
                                           hash |-> hash, key |-> baggage]]
              ELSE L.nodes
      n2 == IF k >= 2 /\ oh # NULL THEN [n1 EXCEPT ![oh].fwd = p] ELSE n1
      r2 == IF k >= 2 /\ oh = NULL THEN [L.root EXCEPT !.head = p] ELSE L.root
      r3 == IF k >= 3
              THEN (IF oh # NULL THEN [r2 EXCEPT !.head = p] ELSE [r2 EXCEPT !.tail = p])
              ELSE r2
      r4 == IF k >= 4 THEN [r3 EXCEPT !.size = @ + size] ELSE r3
      r5 == IF k >= 5 THEN [r4 EXCEPT !.count = @ + 1] ELSE r4
  IN  [root |-> r5, nodes |-> n2]

\* The first k stores of Plru::touch of a node that is not the head.
PlruTouchUpTo(L, p, k) ==
  IF L.root.head = p
    THEN L
    ELSE LET C == CutNodeAndStitchUpTo(L, p, k)
             oh == C.root.head
             n1 == IF k >= 7 THEN [C.nodes EXCEPT ![oh].fwd = p] ELSE C.nodes
             n2 == IF k >= 8 THEN [n1 EXCEPT ![p].back = oh] ELSE n1
             r1 == IF k >= 9 THEN [C.root EXCEPT !.head = p] ELSE C.root
         IN  [root |-> r1, nodes |-> n2]

\* The first k stores of Plru::remove.
PlruRemoveUpTo(L, p, k) ==
  LET C == CutNodeAndStitchUpTo(L, p, k)
      r1 == IF k >= 7 THEN [C.root EXCEPT !.size = @ - C.nodes[p].size] ELSE C.root
      r2 == IF k >= 8 THEN [r1 EXCEPT !.count = @ - 1] ELSE r1
  IN  [root |-> r2, nodes |-> C.nodes]

\* Execution stops inside (or right after) the list update of an insertion
\* that needs no eviction, of a get, or of a remove; the cache is reopened.
CacheHalt ==
  /\ sys = "cache"
  /\ \/ \E key \in Hashes, len \in Lens, tag \in Tags, k \in 0..InsertStores :
          /\ ~PlruEvict(LruOf(CacheState), len).some
          /\ Ptrs \ palloc # {}
          /\ LET p == PalAllocate(CacheState)
                 L == PlruInsertUpTo(LruOf(CacheState), p, key, len, tag, k)
             IN  SetCache([WithLru(CacheState, L) EXCEPT !.alloc = @ \cup {p}])
          /\ cres' = [op |-> "reopen", res |-> "insert", key |-> key, calls |-> <<>>]
     \/ \E key \in Hashes, k \in 0..TouchStores :
          /\ pmap[key] # NoEntry
          /\ SetCache(WithLru(CacheState,
                              PlruTouchUpTo(LruOf(CacheState), pmap[key].lru_node, k)))
          /\ cres' = [op |-> "reopen", res |-> "get", key |-> key, calls |-> <<>>]
     \/ \E key \in Hashes, k \in 0..RemoveStores :
          /\ pmap[key] # NoEntry
          /\ SetCache([WithLru(CacheState,
                               PlruRemoveUpTo(LruOf(CacheState), pmap[key].lru_node, k))
                         EXCEPT !.map[key] = NoEntry])
          /\ cres' = [op |-> "reopen", res |-> "remove", key |-> key, calls |-> <<>>]
  /\ sys' = "reopened"
  /\ UNCHANGED <<pbVars, migVars, polVars, leafVars, treeVars, dmlVars, tres>>

NextCacheCrash == CacheInsert \/ CacheGet \/ CacheRemove \/ CacheHalt
SpecCacheCrash == InitCache /\ [][NextCacheCrash]_vars

\* The sizes recorded in a set of nodes.
RECURSIVE SumNodeSizes(_)
SumNodeSizes(P) ==
  IF P = {} THEN 0 ELSE LET p == Min(P) IN pnode[p].size + SumNodeSizes(P \ {p})

\* Head and tail agree with the links, and size and count with the nodes.
ListConsistent ==
  /\ (plru.head = NULL) <=> (plru.tail = NULL)
  /\ \A i \in 1..Len(Linked) : \A j \in 1..Len(Linked) : i # j => Linked[i] # Linked[j]
  /\ Linked # <<>> =>
       /\ Linked[Len(Linked)] = plru.tail
       /\ pnode[plru.tail].back = NULL
       /\ pnode[plru.head].fwd = NULL
  /\ \A i \in 1..(Len(Linked) - 1) : pnode[Linked[i + 1]].fwd = Linked[i]
  /\ plru.count = Len(Linked)
  /\ plru.size = SumNodeSizes(LinkedSet)

\* C13: wherever execution stops, the reopened list is consistent: head and
\* tail agree with the node links, size and count with the linked nodes.
C13_CrashConsistent ==
  sys = "reopened" => ListConsistent

(***************************************************************************)
(* The Plru alone, called as the tests of lru.rs call it: with node        *)
(* pointers of the caller's choice.  The result cres holds the node in     *)
(* key and, for evict, the returned (hash, baggage) in calls.  A behaviour *)
(* ends at the insert of a node that is linked already.                    *)
(***************************************************************************)
LruSizes == 0..MaxLen
UnitBaggage == 1

\* plru.insert(node_ptr.clone(), id, size, ()).unwrap(): as in the tests the
\* list is a Plru<()> and every node goes with an id of its own.
LruInsert ==
  /\ sys = "plru"
  /\ cres.op # "lru_reinsert"
  /\ \E p \in Ptrs, size \in LruSizes :
       /\ SetCache(WithLru(CacheState, PlruInsert(LruOf(CacheState), p, p, size, UnitBaggage)))
       /\ cres' = [op |-> IF p \in LinkedSet THEN "lru_reinsert" ELSE "lru_insert",
                   res |-> "Ok", key |-> p, calls |-> <<>>]
  /\ UNCHANGED <<sys, pbVars, migVars, polVars, leafVars, treeVars, dmlVars, tres>>

\* plru.touch(ptr)
LruTouch ==
  /\ sys = "plru"
  /\ cres.op # "lru_reinsert"
  /\ \E p \in Ptrs :
       /\ p \in LinkedSet
       /\ SetCache(WithLru(CacheState, PlruTouch(LruOf(CacheState), p)))
       /\ cres' = [op |-> "lru_touch", res |-> "Ok", key |-> p, calls |-> <<>>]
  /\ UNCHANGED <<sys, pbVars, migVars, polVars, leafVars, treeVars, dmlVars, tres>>

\* plru.remove(ptr)
LruRemove ==
  /\ sys = "plru"
  /\ cres.op # "lru_reinsert"
  /\ \E p \in Ptrs :
       /\ p \in LinkedSet
       /\ SetCache(WithLru(CacheState, PlruRemove(LruOf(CacheState), p)))
       /\ cres' = [op |-> "lru_remove", res |-> "Ok", key |-> p, calls |-> <<>>]
  /\ UNCHANGED <<sys, pbVars, migVars, polVars, leafVars, treeVars, dmlVars, tres>>

\* plru.evict(size).unwrap(): &self, the list is only read
LruEvict ==
  /\ sys = "plru"
  /\ cres.op # "lru_reinsert"
  /\ \E size \in LruSizes :
       \E v \in {PlruEvict(LruOf(CacheState), size)} :
           cres' = [op |-> "lru_evict", res |-> "Ok", key |-> size,
                    calls |-> IF v.some THEN <<<<v.hash, v.key>>>> ELSE <<>>]
  /\ SetCache(CacheState)
  /\ UNCHANGED <<sys, pbVars, migVars, polVars, leafVars, treeVars, dmlVars, tres>>

InitPlru == sys = "plru" /\ InitCacheVars /\ IdleTreeVars /\ IdleLeafVars /\ IdleAuxVars
NextPlru == LruInsert \/ LruTouch \/ LruRemove \/ LruEvict
SpecPlru == InitPlru /\ [][NextPlru]_vars

\* The list is well formed.
WellFormed ==
  /\ (plru.head = NULL) <=> (plru.tail = NULL)
  /\ (plru.head = NULL) <=> (plru.count = 0)
  /\ plru.head = NULL => plru.size = 0
  /\ plru.head # NULL => pnode[plru.head].fwd = NULL
  /\ plru.tail # NULL => pnode[plru.tail].back = NULL
  /\ \A n \in LinkedSet : \A m \in LinkedSet :
       (pnode[n].fwd = m) <=> (pnode[m].back = n)
  /\ Len(Linked) = plru.count
  /\ Cardinality(LinkedSet) = plru.count
  /\ Linked # <<>> => Linked[Len(Linked)] = plru.tail
  /\ plru.size = SumNodeSizes(LinkedSet)

\* C33: after any sequence of inserts of nodes that are not in the list and
\* of touches and removes of nodes that are in it, the list is well formed:
\* head.fwd and tail.back are empty, m = n.fwd iff n = m.back, the walk back
\* from head visits exactly count nodes and ends at tail, size is the sum of
\* the linked nodes' sizes, and head = tail = None, count = 0 and size = 0
\* exactly when the list is empty.
C33_WellFormed ==
  (sys = "plru" /\ cres.op # "lru_reinsert") => WellFormed

\* C33's case: a node between two others was removed, or the tail of three
\* nodes was touched.
C33_Witness ==
  /\ sys = "plru"
  /\ \/ cres.op = "lru_remove" /\ plru.count = 2
     \/ cres.op = "lru_touch" /\ plru.count = 3 /\ plru.tail # cres.key

\* C34: evict(size) returns the tail's (hash, baggage) exactly when the list
\* is not empty and size + the requested size exceeds the capacity, None
\* otherwise, and changes neither head, tail, links, size nor count.
C34_EvictPureQuery ==
  [][cres'.op = "lru_evict" =>
       /\ UNCHANGED <<plru, pnode>>
       /\ cres'.calls =
            IF Linked # <<>> /\ plru.size + cres'.key > plru.capacity
              THEN <<<<pnode[Linked[Len(Linked)]].hash, pnode[Linked[Len(Linked)]].key>>>>
              ELSE <<>> ]_vars

\* C34's case: evict named a victim in a list of several nodes.
C34_Witness ==
  sys = "plru" /\ cres.op = "lru_evict" /\ cres.calls # <<>> /\ plru.count >= 2

\* C35: inserting a node that is linked already returns an error and leaves
\* the list as it was.
C35_InsertFailsWhenPresent ==
  [][(sys = "plru" /\ cres'.op \in {"lru_insert", "lru_reinsert"} /\ cres'.key \in LinkedSet)
       => (cres'.res = "Err" /\ UNCHANGED <<plru, pnode>>)]_vars

(***************************************************************************)
(* The NVM leaf alone.                                                     *)
(***************************************************************************)
InitLeaf == sys = "leaf" /\ InitCacheVars /\ IdleTreeVars /\ IdleLeafVars /\ IdleAuxVars
NextLeaf ==
  NLeafInsert \/ NLeafPackUnpack \/ NLeafGet \/ NLeafUpgrade \/ NLeafForceUpgrade
    \/ NLeafSplit \/ NLeafMerge \/ NLeafRebalance \/ NLeafSplitMerge \/ NLeafRange
SpecLeaf == InitLeaf /\ [][NextLeaf]_vars

(***************************************************************************)
(* Claims about the NVM leaf.                                              *)
(***************************************************************************)
\* the bytes of the node that NLeafPackUnpack writes, and their two regions
Written == Pack(nleaf)
WrittenMetaLen == FromU32(Slice(Written, 0, 4))
WrittenDataLen == FromU32(Slice(Written, 4, 8))
\* the data region is the last data_len bytes written: it starts here
DataRegionStart == Len(Written) - WrittenDataLen

\* C14: writing a Deserialized leaf and reading it back gives the same
\* metadata and exactly the same keys; the written meta_len is the byte
\* length of the metadata region, so the data region starts at 8 + meta_len.
C14_PackUnpackRoundTrip ==
  [][lres'.op = "unpack" =>
       /\ lres'.res = "Ok"
       /\ nleaf'.meta = [nleaf.meta EXCEPT !.pref = PackedPref(@)]
       /\ nleaf'.keys = nleaf.keys
       /\ WrittenMetaLen = DataRegionStart - NVMLEAF_METADATA_OFFSET
       /\ DataRegionStart = NVMLEAF_METADATA_OFFSET + WrittenMetaLen
    ]_vars

\* C15: get on the leaf read back returns, for every key that was packed,
\* the KeyInfo and the complete value that were packed; the stored location
\* of the key, relative to the start of the data region, covers exactly the
\* key_info byte and all value bytes of the entry.
C15_GetAfterUnpack ==
  [][lres'.op = "unpack" =>
       \A k \in nleaf.keys :
         /\ k \in nleaf'.keys
         /\ StateGet(nleaf', k).ok
         /\ StateGet(nleaf', k).res = nleaf.ent[k]
         /\ nleaf'.loc[k].len = KeyInfoSize + Len(nleaf.ent[k].val)
         /\ Slice(Written, DataRegionStart + nleaf'.loc[k].off,
                  DataRegionStart + nleaf'.loc[k].off + nleaf'.loc[k].len)
              = <<nleaf.ent[k].info>> \o nleaf.ent[k].val
    ]_vars

SizesAgree(n) == Size(n) = ActualSize(n) /\ Size(n) = Len(Pack(n))

AllFetched(n) == \A k \in n.keys : n.ent[k].some
\* C17: upgrade returns AttemptedInvalidTransition when a cell of a
\* PartiallyLoaded node is unfetched and AlreadyDeserialized when the node
\* is Deserialized, and leaves the node as it was in both cases; when every
\* cell is fetched it succeeds and the node is Deserialized with the same
\* keys and values.
C17_Upgrade ==
  [][lres'.op = "upgrade" =>
       /\ (nleaf.st = "PartiallyLoaded" /\ ~AllFetched(nleaf)) =>
             lres'.res = "AttemptedInvalidTransition" /\ nleaf' = nleaf
       /\ nleaf.st = "Deserialized" =>
             lres'.res = "AlreadyDeserialized" /\ nleaf' = nleaf
       /\ (nleaf.st = "PartiallyLoaded" /\ AllFetched(nleaf)) =>
             /\ lres'.res = "Ok"
             /\ nleaf'.st = "Deserialized"
             /\ nleaf'.keys = nleaf.keys
             /\ nleaf'.ent = nleaf.ent
    ]_vars
\* an upgrade that succeeded on a node with two fetched cells
C17_Witness ==
  /\ sys = "leaf" /\ lres.op = "upgrade" /\ lres.res = "Ok"
  /\ nleaf.st = "Deserialized" /\ Cardinality(nleaf.keys) >= 2

\* C18: force_upgrade never fails; from PartiallyLoaded with any cells
\* fetched and from Deserialized it leaves the node Deserialized with the
\* keys it held, each with the value get would have returned, and a second
\* call changes nothing.
C18_ForceUpgrade ==
  [][lres'.op = "force_upgrade" =>
       /\ lres'.res = "Ok"
       /\ nleaf'.st = "Deserialized"
       /\ nleaf'.keys = nleaf.keys
       /\ \A k \in nleaf.keys : nleaf'.ent[k] = StateGet(nleaf, k).res
       /\ ForceUpgrade(nleaf') = [node |-> nleaf', ok |-> TRUE]
    ]_vars

InRange(size, min_size) == min_size <= size /\ size <= MaxSizeFor(min_size)
\* C19: a leaf whose size is above max and at most max + min, split with
\* split(min, max), leaves the node and the new right sibling with a size
\* in [min, max].
C19_SplitSizes ==
  [][(/\ lres'.op = "split" /\ lres'.res = "Ok" /\ npacks = 0
      /\ Size(nleaf) > MaxSizeFor(lres'.min)
      /\ Size(nleaf) <= MaxSizeFor(lres'.min) + lres'.min) =>
       InRange(Size(nleaf'), lres'.min) /\ InRange(Size(nsib'), lres'.min)
    ]_vars

\* C20: a split conserves the entries: left and right together hold the
\* original entries, every left key is smaller than every right key, the
\* pivot is the largest key left, both halves are non-empty, size_delta is
\* minus the sibling's entries_size and the two entries_size add up to the
\* original.
C20_SplitConserves ==
  [][(lres'.op = "split" /\ lres'.res = "Ok") =>
       LET orig == ForceUpgrade(nleaf).node
       IN  /\ nleaf'.keys \cup nsib'.keys = orig.keys
           /\ nleaf'.keys \cap nsib'.keys = {}
           /\ \A k \in nleaf'.keys : nleaf'.ent[k] = orig.ent[k]
           /\ \A k \in nsib'.keys : nsib'.ent[k] = orig.ent[k]
           /\ \A l \in nleaf'.keys, r \in nsib'.keys : KeyRank(l) < KeyRank(r)
           /\ nleaf'.keys # {} /\ nsib'.keys # {}
           /\ lres'.key \in nleaf'.keys
           /\ \A l \in nleaf'.keys : KeyRank(l) <= KeyRank(lres'.key)
           /\ lres'.delta = 0 - nsib'.meta.entries_size
           /\ nleaf'.meta.entries_size + nsib'.meta.entries_size = orig.meta.entries_size
    ]_vars
\* a split that moved two of three entries to the sibling
C20_Witness ==
  /\ sys = "leaf" /\ lres.op = "split" /\ lres.res = "Ok"
  /\ Cardinality(nsib.keys) = 2 /\ Cardinality(nleaf.keys) = 1

C29_InsertOnlyDeserialized ==
  [][ /\ (lres'.op \in {"insert", "split", "merge", "rebalance", "split_merge"}
           /\ lres'.res = "Ok") =>
            nleaf'.st = "Deserialized" /\ nsib'.st = "Deserialized"
      /\ (nleaf.st = "Deserialized" /\ lres'.op # "unpack") => nleaf'.st # "PartiallyLoaded"
      /\ nsib'.st = "Deserialized"
    ]_vars
\* an insert into a node that was PartiallyLoaded with a cell not fetched
C29_Witness ==
  /\ sys = "leaf" /\ lres.op = "insert" /\ lres.res = "Ok" /\ npacks = 1
  /\ nleaf.st = "Deserialized" /\ Cardinality(nleaf.keys) >= 2

\* C31: range() yields every entry of the leaf exactly once in ascending key
\* order, for a PartiallyLoaded node (after fetching the missing cells) as for
\* a Deserialized one.
C31_RangeYieldsAll ==
  [][lres'.op = "range" =>
       /\ lres'.res = "Ok"
       /\ Len(lres'.got) = Cardinality(nleaf.keys)
       /\ \A i \in 1..Len(lres'.got) :
            /\ lres'.got[i].key = SortedKeys(nleaf.keys)[i]
            /\ lres'.got[i].cell = StateGet(nleaf, lres'.got[i].key).res
    ]_vars

NumFetched(n) == Cardinality({k \in n.keys : n.ent[k].some})
\* C36: whenever the cached storage preference of a leaf is valid, it is the
\* fastest preference among the entries the leaf holds (NONE for no entries),
\* after any sequence of inserts, splits and merges (the leaf was not written
\* back and read again); for the node and for the sibling of a split alike.
C36_CachedPrefIsFastest ==
  (sys = "leaf" /\ npacks = 0) =>
    /\ (nleaf.st # "Panic" /\ nleaf.meta.pref # PrefUnknown) => nleaf.meta.pref = Recalc(nleaf)
    /\ nsib.meta.pref # PrefUnknown => nsib.meta.pref = Recalc(nsib)

\* C30: a PartiallyLoaded leaf with n keys has fewer than n cells fetched:
\* once all n are loaded the node is Deserialized.
C30_PartialNotComplete ==
  (sys = "leaf" /\ nleaf.st = "PartiallyLoaded") => NumFetched(nleaf) < Cardinality(nleaf.keys)

(***************************************************************************)
(* The PBTree alone, migrate alone, the policy's main loop alone.          *)
(***************************************************************************)
InitPBTree ==
  sys = "pbtree" /\ InitCacheVars /\ IdleTreeVars /\ IdleLeafVars /\ IdleAuxVars
NextPBTree == PBTreeInsert
SpecPBTree == InitPBTree /\ [][NextPBTree]_vars

InitMigrate ==
  /\ sys = "migrate" /\ InitCacheVars /\ IdleTreeVars /\ IdleLeafVars
  /\ IdlePBVars /\ IdlePolVars
  /\ minfo \in [Classes -> StorageInfos]
  /\ mthr \in [Classes -> Thresholds]
  /\ mcalls = <<>>
  /\ mres = [op |-> "new", res |-> "Ok", reread |-> minfo]
NextMigrate == MigMigrate
SpecMigrate == InitMigrate /\ [][NextMigrate]_vars

InitPolicy ==
  /\ sys = "policy" /\ InitCacheVars /\ IdleTreeVars /\ IdleLeafVars
  /\ IdlePBVars /\ IdleMigVars
  /\ mimpl \in {"Anatomy", "Implementor"}
  /\ mpc = "config"
  /\ mterm = FALSE
  /\ mupd = 0
  /\ mmig = 0
  /\ mcyc = 0
NextMain == MainConfig \/ MainUpdate \/ MainMigrate \/ MainCheck
NextPolicy == NextMain \/ PolTerminate
SpecPolicy == InitPolicy /\ [][NextPolicy]_vars
\* the thread that runs main is scheduled as long as main has a step to take
SpecPolicyFair == SpecPolicy /\ WF_vars(NextMain)

(***************************************************************************)
(* Claims about the PBTree.                                                *)
(***************************************************************************)
\* C37: the retry of PBTree::insert succeeds: when the first descent splits
\* a full node and hands the pair back, the second descent from the root
\* stores it without handing it back again.
C37_RetrySucceeds ==
  [][pres'.op = "insert" =>
       LET Retried(r1) ==
             r1.retry => ~RootInsertFrom(r1.root, pres'.key, pwant[pres'.key] + 1).retry
       IN  Retried(RootInsertFrom(proot, pres'.key, pwant[pres'.key] + 1))]_vars

\* C32: after every insert the root satisfies is_valid (for every pivot whose
\* child is a subtree the subtree's lowest pivot is below the pivot and its
\* highest pivot equals it, recursively), and no assert of a split failed.
\* (A child with a single pivot, which only the order B = 4 produces, counts
\* as valid when that pivot equals the parent's.)
C32_ValidAfterInsert ==
  (sys = "pbtree" /\ pres.op = "insert") =>
    (pres.res = "Ok" /\ ValidFrom(proot, TRUE) = "Valid")

\* C22: after any sequence of inserts, get(k) returns the value inserted last
\* for every key that was inserted, and None for every key that never was.
C22_GetAfterInserts ==
  sys = "pbtree" => \A k \in PKeys : PBGet(proot, k) = pwant[k]

(***************************************************************************)
(* Claims about migrate.                                                   *)
(***************************************************************************)
\* The pairs <<high, low>> of tiers next to each other among the tiers that
\* report a StorageInfo.
AdjacentTiers(I) ==
  {p \in Classes \X Classes :
     /\ p[1] < p[2] /\ I[p[1]].some /\ I[p[2]].some
     /\ \A c \in Classes : (p[1] < c /\ c < p[2]) => ~I[c].some}
UpperOf(I, low) == CHOOSE h \in Classes : <<h, low>> \in AdjacentTiers(I)

\* A threshold in tenths, limited to [0, 1].
Clamped(t) == IF t < 0 THEN 0 ELSE IF t > 10 THEN 10 ELSE t

\* used / total >= t / 10, > t / 10, < t / 10, for a tier with capacity
FullAtLeast(i, t) == i.total > 0 /\ 10 * (i.total - i.free) >= Clamped(t) * i.total
FullAbove(i, t) == i.total > 0 /\ 10 * (i.total - i.free) > Clamped(t) * i.total
FullBelow(i, t) == i.total > 0 /\ 10 * (i.total - i.free) < Clamped(t) * i.total

CallsOf(calls, fn) == SelectSeq(calls, LAMBDA c : c.fn = fn)
TiersOf(calls) == {calls[i].tier : i \in 1..Len(calls)}
Ascending(calls) == \A i \in 1..Len(calls) : \A j \in 1..Len(calls) :
                      i < j => calls[i].tier < calls[j].tier

\* the lower tiers that promote is due for, and the tight_space flags
PromoteDue(I) == {p[2] : p \in {q \in AdjacentTiers(I) : I[q[2]].total # 0}}
TightFlagsRight(I, thr, pc) ==
  \A i \in 1..Len(pc) :
    /\ pc[i].tier \in PromoteDue(I)
    /\ pc[i].tight = FullAtLeast(I[UpperOf(I, pc[i].tier)], thr[UpperOf(I, pc[i].tier)])

\* C23 as stated: migrate calls promote(low, tight_space) once for each pair
\* of adjacent tiers whose lower tier has capacity, tight_space being true
\* exactly when the upper tier is at or above its clamped threshold.
C23_PromoteEachPair ==
  [][mres'.op = "migrate"
       => LET pc == CallsOf(mcalls', "promote")
          IN  /\ TiersOf(pc) = PromoteDue(minfo)
              /\ Ascending(pc)
              /\ TightFlagsRight(minfo, mthr, pc) ]_vars

\* C23, amended: that holds as long as no promote call returns an error; a
\* promote that fails is the last call of migrate: the pairs behind it get no
\* promote, and no demote follows.
C23_PromoteUntilError ==
  [][mres'.op = "migrate"
       => LET pc == CallsOf(mcalls', "promote")
          IN  /\ Ascending(pc)
              /\ TightFlagsRight(minfo, mthr, pc)
              /\ mres'.res # "PromoteErr" => TiersOf(pc) = PromoteDue(minfo)
              /\ mres'.res = "PromoteErr" =>
                   /\ pc # <<>>
                   /\ TiersOf(pc) = {l \in PromoteDue(minfo) : l <= pc[Len(pc)].tier}
                   /\ mcalls' = pc ]_vars

\* C23 happens: a migrate that returned Ok made two promote calls, one with
\* tight_space and one without.
C23_Witness ==
  /\ sys = "migrate"
  /\ mres.op = "migrate"
  /\ mres.res = "Ok"
  /\ \E i \in 1..Len(mcalls) : \E j \in 1..Len(mcalls) :
       /\ mcalls[i].fn = "promote" /\ mcalls[i].tight
       /\ mcalls[j].fn = "promote" /\ ~mcalls[j].tight

\* the upper tiers that demote is due for, by the infos read after the
\* promote calls, and the block counts asked for
DemoteDue(I, thr) ==
  {p[1] : p \in {q \in AdjacentTiers(I) :
                   FullAbove(I[q[1]], thr[q[1]]) /\ FullBelow(I[q[2]], thr[q[2]])}}
DesiredRight(I, thr, dc) ==
  \A i \in 1..Len(dc) :
    /\ dc[i].tier \in DemoteDue(I, thr)
    /\ dc[i].desired =
         ((I[dc[i].tier].total * (10 - Clamped(thr[dc[i].tier]))) \div 10) - I[dc[i].tier].free
    /\ \E c \in Classes : c > dc[i].tier /\ I[c].some

BigTier == 100          \* blocks of the large tier
SmallTier == 10         \* blocks of the small tier
ThresholdSteps == 100   \* thresholds are the f32 nearest to k / ThresholdSteps

F32Zero == [m |-> 0, e |-> 0]
F32One == [m |-> 2^23, e |-> -23]

RoundHalfEven(num, den) ==
  LET q == num \div den
      r == num % den
  IN  IF 2 * r > den \/ (2 * r = den /\ q % 2 = 1) THEN q + 1 ELSE q

RECURSIVE Bits(_)
Bits(n) == IF n = 0 THEN 0 ELSE 1 + Bits(n \div 2)

\* the f32 nearest to n * 2^e, n >= 0
F32Norm(n, e) ==
  IF n = 0 THEN F32Zero
  ELSE LET s == Bits(n) - 24
           Carried(m) == IF m = 2^24 THEN [m |-> 2^23, e |-> e + s + 1]
                                     ELSE [m |-> m, e |-> e + s]
       IN  IF s <= 0 THEN [m |-> n * 2^(-s), e |-> e + s]
                     ELSE Carried(RoundHalfEven(n, 2^s))

\* the exponent e <= 0 with 2^23 <= (num / den) / 2^e < 2^24
RECURSIVE ExpOf(_, _, _)
ExpOf(num, den, e) ==
  IF num * 2^(-e) >= 2^23 * den THEN e ELSE ExpOf(num, den, e - 1)

\* the f32 nearest to num / den: a literal num / den of the configuration,
\* and num as f32 / den as f32
F32Of(num, den) ==
  IF num = 0 THEN F32Zero
  ELSE LET At(e) == F32Norm(RoundHalfEven(num * 2^(-e), den), e)
       IN  At(ExpOf(num, den, 0))

\* 1.0 - x, for 0 <= x <= 1
F32Sub1(x) == IF x.m = 0 THEN F32One ELSE F32Norm(2^(-x.e) - x.m, x.e)

\* n as f32 * x
F32MulInt(n, x) == F32Norm(n * x.m, x.e)

\* x as u64: the fraction is cut off
AsU64(x) ==
  IF x.e >= 0 THEN x.m * 2^(x.e)
  ELSE IF -x.e >= 24 THEN 0
  ELSE x.m \div 2^(-x.e)

\* x > y, for x, y >= 0
F32Gt(x, y) ==
  /\ x.m # 0
  /\ \/ y.m = 0
     \/ x.e > y.e
     \/ x.e = y.e /\ x.m > y.m

\* val.clamp(0.0, 1.0) of the configured threshold k / ThresholdSteps
ThresholdF32(k) ==
  F32Of(IF k < 0 THEN 0 ELSE IF k > ThresholdSteps THEN ThresholdSteps ELSE k, ThresholdSteps)

\* StorageInfo::percent_full in f32: 1.0 - free as f32 / total as f32
PercentFullF32(i) == F32Sub1(F32Of(i.free, i.total))

\* (total as f32 * (1.0 - threshold)) as u64 - free, as an integer
DesiredF32(i, t) == AsU64(F32MulInt(i.total, F32Sub1(t))) - i.free

\* One window of the second loop of migrate whose lower tier is below its
\* threshold: the filter on the upper tier, then desired and the demote call.
DemoteDesired ==
  /\ sys = "desired"
  /\ mres.op = "new"
  /\ LET Due(t) ==
           IF ~F32Gt(PercentFullF32(minfo[0]), t)
             THEN /\ mcalls' = <<>>
                  /\ mres' = [op |-> "desired", res |-> "NotDue", reread |-> minfo]
             ELSE LET With(d) ==
                        /\ mcalls' = IF d < 0 THEN <<>>
                                     ELSE <<[fn |-> "demote", tier |-> 0, tight |-> FALSE,
                                             desired |-> d]>>
                        /\ mres' = [op |-> "desired",
                                    res |-> IF d < 0 THEN "Underflow" ELSE "Ok",
                                    reread |-> minfo]
                  IN  With(DesiredF32(minfo[0], t))
     IN  Due(ThresholdF32(mthr[0]))
  /\ UNCHANGED <<sys, minfo, mthr, pbVars, polVars, leafVars, cacheVars, treeVars, dmlVars, tres>>

InitDesired ==
  /\ sys = "desired" /\ InitCacheVars /\ IdleTreeVars /\ IdleLeafVars
  /\ IdlePBVars /\ IdlePolVars
  /\ \E total \in {SmallTier, BigTier}, free \in 0..BigTier, k \in 0..ThresholdSteps :
       /\ free <= total
       /\ minfo = [c \in Classes |->
                     IF c = 0 THEN [some |-> TRUE, free |-> free, total |-> total] ELSE NoInfo]
       /\ mthr = [c \in Classes |-> IF c = 0 THEN k ELSE 0]
  /\ mcalls = <<>>
  /\ mres = [op |-> "new", res |-> "Ok", reread |-> minfo]
NextDesired == DemoteDesired
SpecDesired == InitDesired /\ [][NextDesired]_vars

\* C38: whenever the filter of the second loop lets a tier through
\* (percent_full > threshold), desired is not negative: the subtraction
\* of the free blocks from (total * (1 - threshold)) as u64 does not
\* underflow, for every total, free <= total and threshold in [0, 1].
C38_DesiredNonNegative ==
  (sys = "desired" /\ mres.op = "desired") => mres.res # "Underflow"

(***************************************************************************)
(* Claims about the policy's main loop.                                    *)
(***************************************************************************)
\* C25: once terminate() has been called main returns (Ok, or Err if update
\* failed), after at most one more update and at most one more migrate.
C25_TerminateStops ==
  /\ [](mupd <= 1 /\ mmig <= 1)
  /\ (mterm ~> (mpc = "Ok" \/ mpc = "Err"))

(***************************************************************************)
(* The whole system.                                                       *)
(***************************************************************************)
Init == InitCache \/ InitTree \/ InitDml \/ InitLeaf \/ InitPBTree \/ InitMigrate \/ InitPolicy
Next == NextCacheCrash \/ NextTree \/ NextDml \/ NextLeaf \/ NextPBTree \/ NextMigrate \/ NextPolicy
Spec == Init /\ [][Next]_vars
====
